---- MODULE Spec2Model ----
(***************************************************************************)
(* State-machine model of the WebGPUGlobe editor (src/app.js): the three   *)
(* shell layers, the clip polygon and its transform, the clipping-plane    *)
(* solver, the two clipping strategies, the layer manager handlers, the    *)
(* polygon capture with its finish gesture, the brush and smoothing of the *)
(* terrain with its brush controls and buffer flags, the asset loaders,    *)
(* the resolution console, and the initialisation sequence.                *)
(*                                                                         *)
(* Numbers.  The program computes in IEEE doubles; the model computes in   *)
(* integers.  Angles are multiples of 22.5 degrees, sines and cosines are  *)
(* taken from a table in thousandths and every product is truncated        *)
(* towards zero.  A unit normal is represented by the primitive integer    *)
(* vector of the same direction (a positive rescaling, like normalize()),  *)
(* so the sign of normal.vertex + d is the sign the program computes in    *)
(* exact arithmetic; the zero vector stays the zero vector, as             *)
(* THREE.Vector3.normalize() leaves it (it divides by length() || 1).      *)
(*                                                                         *)
(* Index buffers hold 0-based vertex numbers as in the program; a buffer   *)
(* is a sequence of triangles <<a, b, c>>.  A geometry is a record         *)
(* [position, hasIndex, index]; hasIndex is FALSE for geometry.index null. *)
(*                                                                         *)
(* Lengths are whole units, except under SpecBrush, which measures the     *)
(* crust, the brush size and the intensity in tenths of a unit so that a   *)
(* stroke of intensity 1.5 or 2 can be followed down to the centre.        *)
(***************************************************************************)
EXTENDS Integers, Sequences, FiniteSets, TLC

VARIABLES
    isWebGPURenderer,       \* this.renderer.isWebGPURenderer
    visible,                \* this.<layer>.visible
    geometry,               \* this.<layer>.geometry
    materialPlanes,         \* this.<layer>.material.clippingPlanes
    clipIntersection,       \* this.<layer>.material.clipIntersection
    originalGeometries,     \* this.originalGeometries[mesh.uuid]
    geometryObject,         \* which object this.<layer>.geometry refers to
    clippingPlanes,         \* this.clippingPlanes[mesh.uuid]
    clipChecked,            \* the clipCrust / clipMantle / clipCore checkboxes
    realtimeClipping,       \* this.realtimeClipping
    clippingDirection,      \* this.clippingDirection
    clippingPolygon,        \* this.clippingPolygon (the working point set)
    originalPolygonPoints,  \* this.originalPolygonPoints
    polygonAxis,            \* this.polygonAxis
    polygonPosition,        \* this.polygonPosition
    polygonRotationAxis,    \* this.polygonRotationAxis
    polygonRotation,        \* this.polygonRotation
    polygonWidth,           \* this.polygonWidth
    polygonHeight,          \* this.polygonHeight
    sphereCylinders,        \* positions of this.sphereCylinders
    spherePolygon,          \* position attribute of this.spherePolygon, if any
    isDrawingPolygon,       \* this.isDrawingPolygon
    isEditing,              \* this.isEditing
    isDragging,             \* this.isDragging
    mode,                   \* this.mode: the brush mode
    brushSize,              \* this.brushSize
    intensity,              \* this.intensity
    needsUpdate,            \* the terrain's position.needsUpdate was set since the last frame
    normalsComputed,        \* the terrain's computeVertexNormals ran since the last frame
    polygonPoints,          \* this.polygonPoints (the captured points)
    polygonVertices,        \* this.polygonVertices: the number of markers
    polygonLines,           \* this.polygonLines: how many points it connects, if any
    polygonArea,            \* this.polygonArea: how many points it fills, if any
    previewsInScene,        \* how many markers, lines and fills of captures the scene holds
    loading,                \* how many elements with id 'loading' the document holds
    rejectedLoads,          \* how many load calls have ended in a rejected promise
    customWidth,            \* parseInt of the customWidth field, if a number
    customHeight,           \* parseInt of the customHeight field, if a number
    currentSegments,        \* this.currentSegments
    segmentCount,           \* the segmentCount text, once the program has set it
    vertexCount,            \* the vertexCount text, once the program has set it
    triangleCount,          \* the triangleCount text, once the program has set it
    inScene,                \* whether the layer's mesh is a child of this.scene
    startup                 \* how far init() has come: the call it makes next, and
                            \* what it has obtained, registered and started

layerVars == <<visible, geometry, materialPlanes, clipIntersection,
               originalGeometries, geometryObject, clippingPlanes>>
layerContents == <<geometry, materialPlanes, clipIntersection, originalGeometries,
                   geometryObject, clippingPlanes>>
sessionVars == <<clipChecked, realtimeClipping, clippingDirection>>
polygonVars == <<clippingPolygon, originalPolygonPoints, polygonAxis, polygonPosition,
                 polygonRotationAxis, polygonRotation, polygonWidth, polygonHeight,
                 sphereCylinders, spherePolygon>>
captureVars == <<isDrawingPolygon, isEditing, isDragging, polygonPoints, polygonVertices,
                 polygonLines, polygonArea, previewsInScene>>
loadVars == <<loading, rejectedLoads>>
brushVars == <<mode, brushSize, intensity>>
bufferVars == <<needsUpdate, normalsComputed>>
consoleVars == <<customWidth, customHeight, currentSegments, segmentCount, vertexCount,
                 triangleCount, inScene>>
vars == <<isWebGPURenderer, layerVars, sessionVars, polygonVars, captureVars, loadVars,
          brushVars, bufferVars, consoleVars, startup>>

LayerSet == {"crust", "mantle", "core"}
Axes == {"x", "y", "z"}
Directions == {"inside", "outside"}

\* A value that may be absent (null, undefined, a deleted key) is a sequence of
\* length 0 or 1.
None == << >>
Some(x) == <<x>>
IsSome(o) == Len(o) = 1
Get(o) == o[1]

\* A sequence given by a rule, as an explicit tuple: the same value, computed
\* once and not on every access.
Tuple(seq) == seq \o << >>

\* A function on the layers as an explicit record, computed once per layer.
PerLayer(f) == [crust |-> f["crust"], mantle |-> f["mantle"], core |-> f["core"]]

-----------------------------------------------------------------------------
(* Bounds of the model and the values the input events carry.              *)

\* applyWebGPUClipping appends to clippingPlanes[uuid] on every application;
\* handlers that would grow a list beyond this length are not taken.
MaxPlanes == 2

\* A capture holds at most this many points; a click that would add one more is
\* not taken.
MaxPoints == 3

\* At most this many load calls are made.
MaxLoads == 3

\* The scene holds at most this many capture markers; a click that would add
\* more is not taken.
MaxMarkers == 6

\* A polygon edit that would move a coordinate beyond this value is not taken.
MaxCoordinate == 52

\* The radius smoothGlobe pulls the terrain towards.
baseRadius == 50

\* The layers whose visibility toggle is exercised.
ToggledLayers == {"mantle"}

\* The positions of the polygon position slider that are exercised: at 35 the
\* default rectangle lies in the plane z = 40 (z = 40.64 in the program's
\* doubles), and the crust vertices nearest to that plane are at z = 46 and
\* z = 35 (46.19 and 35.36), on the same side in whole numbers as in doubles.
PositionValues == {0, 35}
RotationValues == {0, 90}
SizeValues == {25, 50}

-----------------------------------------------------------------------------
(* Integer arithmetic standing in for the program's doubles.               *)

Abs(n) == IF n >= 0 THEN n ELSE -n
Trunc(n, d) == IF n >= 0 THEN n \div d ELSE -((-n) \div d)

RECURSIVE Gcd(_, _)
Gcd(a, b) == IF b = 0 THEN a ELSE Gcd(b, a % b)

\* Math.sqrt rounded down, by bisection between lo and hi.
RECURSIVE SqrtBetween(_, _, _)
SqrtBetween(n, lo, hi) ==
    IF lo = hi THEN lo
    ELSE LET mid == (lo + hi + 1) \div 2
         IN  IF mid * mid <= n THEN SqrtBetween(n, mid, hi) ELSE SqrtBetween(n, lo, mid - 1)

ISqrt(n) == SqrtBetween(n, 0, 4095)

SinTable == <<0, 383, 707, 924, 1000, 924, 707, 383,
              0, -383, -707, -924, -1000, -924, -707, -383>>
Sin16(k) == SinTable[(k % 16) + 1]
Cos16(k) == Sin16(k + 4)

Dot(a, b) == a[1] * b[1] + a[2] * b[2] + a[3] * b[3]
Sub(a, b) == <<a[1] - b[1], a[2] - b[2], a[3] - b[3]>>
Add(a, b) == <<a[1] + b[1], a[2] + b[2], a[3] + b[3]>>
Cross(a, b) == <<a[2] * b[3] - a[3] * b[2],
                 a[3] * b[1] - a[1] * b[3],
                 a[1] * b[2] - a[2] * b[1]>>

\* Vector3.normalize() on a direction: the primitive vector of that direction.
Normalize(v) ==
    LET g == Gcd(Gcd(Abs(v[1]), Abs(v[2])), Abs(v[3]))
        len == IF g = 0 THEN 1 ELSE g
    IN  <<v[1] \div len, v[2] \div len, v[3] \div len>>

\* point.normalize().multiplyScalar(r): the point moved to distance r.
NormalizeTo(p, r) ==
    LET len == ISqrt(Dot(p, p))
        l == IF len = 0 THEN 1 ELSE len
    IN  <<Trunc(p[1] * r, l), Trunc(p[2] * r, l), Trunc(p[3] * r, l)>>

-----------------------------------------------------------------------------
(* THREE.SphereGeometry(radius, widthSegments, heightSegments).            *)

SphereVertex(radius, w, h, ix, iy) ==
    LET az == ix * (16 \div w)
        po == iy * (8 \div h)
    IN  << Trunc(-radius * Cos16(az) * Sin16(po), 1000000),
           Trunc(radius * Cos16(po), 1000),
           Trunc(radius * Sin16(az) * Sin16(po), 1000000) >>

SpherePositions(radius, w, h) ==
    [k \in 1..((w + 1) * (h + 1)) |->
        SphereVertex(radius, w, h, (k - 1) % (w + 1), (k - 1) \div (w + 1))]

RECURSIVE SphereIndex(_, _, _)
SphereIndex(w, h, q) ==
    IF q = w * h THEN << >>
    ELSE LET ix == q % w
             iy == q \div w
             a == iy * (w + 1) + ix + 1
             b == iy * (w + 1) + ix
             c == (iy + 1) * (w + 1) + ix
             d == (iy + 1) * (w + 1) + ix + 1
         IN  (IF iy # 0 THEN << <<a, b, d>> >> ELSE << >>)
             \o (IF iy # h - 1 THEN << <<b, c, d>> >> ELSE << >>)
             \o SphereIndex(w, h, q + 1)

SphereGeometry(radius, w, h) ==
    [position |-> SpherePositions(radius, w, h),
     hasIndex |-> TRUE,
     index |-> SphereIndex(w, h, 0)]

\* createEarthLayers: the radius of each shell.
LayerRadius(l) == CASE l = "core" -> 20 [] l = "mantle" -> 40 [] l = "crust" -> 50

\* The bounds of the segment counts in readInitialSegments and
\* updateSegmentsIfValid.
MinSegments == 8
MaxSegments == 1024

\* parseInt(value) || fallback.
OrElse(parsed, fallback) ==
    IF IsSome(parsed) /\ Get(parsed) # 0 THEN Get(parsed) ELSE fallback

\* Math.max(8, Math.min(1024, n)).
ClampSegments(n) ==
    LET upper == IF n < MaxSegments THEN n ELSE MaxSegments
    IN  IF upper > MinSegments THEN upper ELSE MinSegments

\* readInitialSegments: this.currentSegments from the two input fields.
readInitialSegments(widthValue, heightValue) ==
    [width |-> ClampSegments(OrElse(widthValue, 256)),
     height |-> ClampSegments(OrElse(heightValue, 128))]

\* this.currentSegments as readInitialSegments leaves it on a page whose
\* fields hold the least segment counts; the layers are created with it.
InitialSegments == readInitialSegments(Some(MinSegments), Some(MinSegments))

createEarthLayers ==
    [l \in LayerSet |->
        SphereGeometry(LayerRadius(l), InitialSegments.width, InitialSegments.height)]

\* What the renderer draws: the index buffer's triangles, or, for a geometry
\* without index, the consecutive vertex triples.
VertexCount(g) == Len(g.position)
TriangleCount(g) == IF g.hasIndex THEN Len(g.index) ELSE Len(g.position) \div 3

-----------------------------------------------------------------------------
(* The clip polygon: creation, transform, visuals.                         *)

\* The four corner points of createSpherePolygon / recreatePolygon: a rectangle
\* at z = 4 pushed out to the reference sphere of radius 80.
RectanglePoints(width, height) ==
    LET halfWidth == Trunc(80 * width, 50 * 2)
        halfHeight == Trunc(80 * height, 50 * 2)
        points == << <<halfWidth, halfHeight, 4>>,
                     <<-halfWidth, halfHeight, 4>>,
                     <<-halfWidth, -halfHeight, 4>>,
                     <<halfWidth, -halfHeight, 4>> >>
    IN  [i \in 1..4 |-> NormalizeTo(points[i], 80)]

\* Matrix4.makeRotationX/Y/Z(degrees * PI / 180) applied to a point.
ApplyRotation(p, axis, degrees) ==
    LET k == (degrees * 2) \div 45
        c == Cos16(k)
        s == Sin16(k)
    IN  CASE axis = "x" -> <<p[1],
                             Trunc(c * p[2] - s * p[3], 1000),
                             Trunc(s * p[2] + c * p[3], 1000)>>
          [] axis = "y" -> <<Trunc(c * p[1] + s * p[3], 1000),
                             p[2],
                             Trunc(c * p[3] - s * p[1], 1000)>>
          [] axis = "z" -> <<Trunc(c * p[1] - s * p[2], 1000),
                             Trunc(s * p[1] + c * p[2], 1000),
                             p[3]>>
          [] OTHER -> p

\* point.x / point.y / point.z += amount.
ApplyTranslation(p, axis, amount) ==
    CASE axis = "x" -> <<p[1] + amount, p[2], p[3]>>
      [] axis = "y" -> <<p[1], p[2] + amount, p[3]>>
      [] axis = "z" -> <<p[1], p[2], p[3] + amount>>
      [] OTHER -> p

\* A cumulative variant of the forEach of updatePolygonPosition: the working
\* points are not reset to the originals before the transform is applied.
PositionPointsCumulative(original, rotAxis, rotation, axis, position) ==
    [i \in 1..Len(original) |->
        ApplyTranslation(
            IF rotation # 0 THEN ApplyRotation(clippingPolygon[1][i], rotAxis, rotation)
                            ELSE clippingPolygon[1][i],
            axis, position)]

\* The forEach of updatePolygonPosition: every working point is reset to its
\* original, rotated when the angle is not 0, then moved along the axis.
PositionPoints(original, rotAxis, rotation, axis, position) ==
    [i \in 1..Len(original) |->
        ApplyTranslation(
            IF rotation # 0 THEN ApplyRotation(original[i], rotAxis, rotation)
                            ELSE original[i],
            axis, position)]

\* A cumulative variant of the forEach of updatePolygonTransform: the working
\* points are rotated and moved from where they are, not from the originals.
TransformPointsCumulative(original, rotAxis, rotation, axis, position) ==
    [i \in 1..Len(original) |->
        LET r == ApplyRotation(clippingPolygon[1][i], rotAxis, rotation)
        IN  IF position # 0 THEN ApplyTranslation(r, axis, position) ELSE r]

\* The forEach of updatePolygonTransform: every working point is reset to its
\* original and rotated, then moved along the axis when the amount is not 0.
TransformPoints(original, rotAxis, rotation, axis, position) ==
    [i \in 1..Len(original) |->
        LET r == ApplyRotation(original[i], rotAxis, rotation)
        IN  IF position # 0 THEN ApplyTranslation(r, axis, position) ELSE r]

\* updatePolygonVisuals on working points `polygon`: the cylinders that exist
\* move to their points and the fill takes the points as its positions.
VisualCylinders(polygon, cylinders, fill) ==
    IF ~IsSome(fill) THEN cylinders
    ELSE [i \in 1..Len(cylinders) |->
            IF i <= Len(polygon) THEN polygon[i] ELSE cylinders[i]]

VisualFill(polygon, fill) == IF ~IsSome(fill) THEN fill ELSE Some(polygon)

-----------------------------------------------------------------------------
(* Clipping plane solver.                                                  *)

\* calculateClippingPlane: None for fewer than 3 points, else the plane through
\* the first three points.
calculateClippingPlane(polygon) ==
    IF Len(polygon) < 3 THEN None
    ELSE LET p0 == polygon[1]
             v1 == Sub(polygon[2], p0)
             v2 == Sub(polygon[3], p0)
             normal == Normalize(Cross(v1, v2))
         IN  Some([normal |-> normal, d |-> -Dot(normal, p0)])

-----------------------------------------------------------------------------
(* Clipping engine.  The operators act on the record of one layer:         *)
(*   geometry, materialPlanes, clipIntersection   the mesh and its material *)
(*   original   this.originalGeometries[mesh.uuid]                          *)
(*   object     the object the mesh's geometry refers to, named by the      *)
(*              expression that made it: "SphereGeometry"                   *)
(*              (createEarthLayers), "newGeometry" (applyGeometryClipping), *)
(*              "clone" (restoreOriginalGeometry); "original" would be the  *)
(*              stored original itself, the clone made when it is stored    *)
(*   planes     this.clippingPlanes[mesh.uuid]                              *)

LayerState(l) ==
    [geometry |-> geometry[l],
     materialPlanes |-> materialPlanes[l],
     clipIntersection |-> clipIntersection[l],
     original |-> originalGeometries[l],
     object |-> geometryObject[l],
     planes |-> clippingPlanes[l]]

\* A variant of the visibility test that also shows a vertex lying on the
\* plane.
shouldShowOrOnPlane(vertex, plane, direction) ==
    LET distance == Dot(plane.normal, vertex) + plane.d
    IN  IF direction = "outside" THEN distance >= 0 ELSE distance <= 0

\* The visibility test of applyGeometryClipping for one vertex.
shouldShow(vertex, plane, direction) ==
    LET distance == Dot(plane.normal, vertex) + plane.d
    IN  IF direction = "outside" THEN distance > 0 ELSE distance < 0

\* applyGeometryClipping, first loop: vertexVisibility for the positions of the
\* stored original.
VertexVisibility(positions, plane, direction) ==
    Tuple([i \in 1..Len(positions) |-> shouldShow(positions[i], plane, direction)])

\* Second loop: the visible vertices in their order (1-based old numbers) ...
KeptVertices(vertexVisibility) ==
    LET IsKept(i) == vertexVisibility[i]
    IN  SelectSeq([i \in 1..Len(vertexVisibility) |-> i], IsKept)

\* ... and vertexMap: entry i + 1 is the new number of old vertex i (0-based),
\* or -1 for a vertex that is not visible (the Map has no entry for it).  The
\* new number of a visible vertex is the number of visible vertices before it;
\* the range is halved to keep the evaluation shallow.
RECURSIVE CountVisible(_, _, _)
CountVisible(vertexVisibility, lo, hi) ==
    IF lo > hi THEN 0
    ELSE IF lo = hi THEN (IF vertexVisibility[lo] THEN 1 ELSE 0)
    ELSE CountVisible(vertexVisibility, lo, (lo + hi) \div 2)
         + CountVisible(vertexVisibility, ((lo + hi) \div 2) + 1, hi)

RECURSIVE VertexMapRange(_, _, _, _)
VertexMapRange(vertexVisibility, lo, hi, newVertexIndex) ==
    IF lo > hi THEN << >>
    ELSE IF lo = hi THEN <<IF vertexVisibility[lo] THEN newVertexIndex ELSE -1>>
    ELSE VertexMapRange(vertexVisibility, lo, (lo + hi) \div 2, newVertexIndex)
         \o VertexMapRange(vertexVisibility, ((lo + hi) \div 2) + 1, hi,
                newVertexIndex + CountVisible(vertexVisibility, lo, (lo + hi) \div 2))

VertexMap(vertexVisibility) ==
    VertexMapRange(vertexVisibility, 1, Len(vertexVisibility), 0)

\* Third loop: the triangles whose three vertices are visible, renumbered.
RenumberTriangles(triangles, vertexMap) ==
    Tuple([k \in 1..Len(triangles) |->
        <<vertexMap[triangles[k][1] + 1], vertexMap[triangles[k][2] + 1],
          vertexMap[triangles[k][3] + 1]>>])

NewIndices(indices, vertexVisibility, vertexMap) ==
    LET AllVisible(t) == /\ vertexVisibility[t[1] + 1]
                         /\ vertexVisibility[t[2] + 1]
                         /\ vertexVisibility[t[3] + 1]
    IN  RenumberTriangles(SelectSeq(indices, AllVisible), vertexMap)

NewGeometry(positions, kept, newIndices) ==
    [position |-> Tuple([k \in 1..Len(kept) |-> positions[kept[k]]]),
     hasIndex |-> Len(newIndices) > 0,
     index |-> newIndices]

BuildGeometry(og, vertexVisibility, kept) ==
    NewGeometry(og.position, kept,
                IF og.hasIndex
                THEN NewIndices(og.index, vertexVisibility, VertexMap(vertexVisibility))
                ELSE << >>)

CompactGeometry(og, vertexVisibility) ==
    BuildGeometry(og, vertexVisibility, KeptVertices(vertexVisibility))

\* The geometry applyGeometryClipping builds from the stored original.
ClippedGeometry(og, plane, direction) ==
    CompactGeometry(og, VertexVisibility(og.position, plane, direction))

\* A compounding variant of applyGeometryClipping: it partitions the mesh the
\* layer currently shows instead of the stored original.
applyGeometryClippingCompounding(ls, plane, direction) ==
    [ls EXCEPT !.original = IF IsSome(ls.original) THEN ls.original
                            ELSE Some(ls.geometry),
               !.geometry = ClippedGeometry(ls.geometry, plane, direction),
               !.object = "newGeometry"]

applyGeometryClipping(ls, plane, direction) ==
    LET original == IF IsSome(ls.original) THEN ls.original ELSE Some(ls.geometry)
    IN  [ls EXCEPT !.original = original,
                   !.geometry = ClippedGeometry(Get(original), plane, direction),
                   !.object = "newGeometry"]

applyWebGPUClipping(ls, plane, direction) ==
    LET stored == IF IsSome(ls.planes) THEN Get(ls.planes) ELSE << >>
        record == [normal |-> plane.normal, d |-> plane.d, direction |-> direction]
    IN  applyGeometryClipping([ls EXCEPT !.planes = Some(Append(stored, record))],
                              plane, direction)

\* A variant of applyMaterialClipping that takes the geometry route whatever
\* the renderer is.
applyMaterialClippingByGeometry(ls, plane, direction, webgpu) ==
    applyWebGPUClipping(ls, plane, direction)

\* A variant of applyMaterialClipping that sets the material plane whatever
\* the renderer is.
applyMaterialClippingByMaterial(ls, plane, direction, webgpu) ==
    LET p == [normal |-> plane.normal, constant |-> plane.d]
    IN  [ls EXCEPT
           !.planes = IF IsSome(ls.planes) THEN ls.planes ELSE Some(<< >>),
           !.materialPlanes = IF IsSome(ls.materialPlanes)
                              THEN Some(Append(Get(ls.materialPlanes), p))
                              ELSE Some(<<p>>),
           !.clipIntersection = (direction = "inside")]

applyMaterialClipping(ls, plane, direction, webgpu) ==
    IF webgpu THEN applyWebGPUClipping(ls, plane, direction)
    ELSE LET p == [normal |-> plane.normal, constant |-> plane.d]
         IN  [ls EXCEPT
                !.planes = IF IsSome(ls.planes) THEN ls.planes ELSE Some(<< >>),
                !.materialPlanes = IF IsSome(ls.materialPlanes)
                                   THEN Some(Append(Get(ls.materialPlanes), p))
                                   ELSE Some(<<p>>),
                !.clipIntersection = (direction = "inside")]

\* clipSphereWithPolygon for an existing layer; `polygon` is this.clippingPolygon.
clipSphereWithPolygon(ls, polygon, direction, webgpu) ==
    IF ~IsSome(polygon) \/ Len(Get(polygon)) < 3 THEN ls
    ELSE LET clippingPlane == calculateClippingPlane(Get(polygon))
         IN  IF ~IsSome(clippingPlane) THEN ls
             ELSE applyMaterialClipping(ls, Get(clippingPlane), direction, webgpu)

\* updateMaterialClipping for an existing layer.
updateMaterialClipping(ls, polygon, direction) ==
    IF ~IsSome(polygon) \/ Len(Get(polygon)) < 3 THEN ls
    ELSE LET clippingPlane == calculateClippingPlane(Get(polygon))
         IN  IF ~IsSome(clippingPlane) THEN ls
             ELSE LET p == [normal |-> Get(clippingPlane).normal,
                            constant |-> Get(clippingPlane).d]
                  IN  IF IsSome(ls.materialPlanes) /\ Len(Get(ls.materialPlanes)) > 0
                      THEN [ls EXCEPT !.materialPlanes =
                                Some([Get(ls.materialPlanes) EXCEPT ![1] = p])]
                      ELSE [ls EXCEPT !.materialPlanes = Some(<<p>>),
                                      !.clipIntersection = (direction = "inside")]

\* A variant of restoreOriginalGeometry that forgets the recorded planes but
\* leaves the mesh as it is.
restoreWithoutGeometry(ls, webgpu) ==
    [ls EXCEPT !.planes = None]

\* A variant of restoreOriginalGeometry that hands the mesh the stored original
\* itself instead of a clone of it.
restoreOriginalGeometryShared(ls, webgpu) ==
    LET restored ==
            IF webgpu
            THEN IF IsSome(ls.original)
                 THEN [ls EXCEPT !.geometry = Get(ls.original), !.object = "original"]
                 ELSE ls
            ELSE IF IsSome(ls.materialPlanes)
                 THEN [ls EXCEPT !.materialPlanes = Some(<< >>)]
                 ELSE ls
    IN  [restored EXCEPT !.planes = None]

\* restoreOriginalGeometry for an existing layer.
restoreOriginalGeometry(ls, webgpu) ==
    LET restored ==
            IF webgpu
            THEN IF IsSome(ls.original)
                 THEN [ls EXCEPT !.geometry = Get(ls.original), !.object = "clone"]
                 ELSE ls
            ELSE IF IsSome(ls.materialPlanes)
                 THEN [ls EXCEPT !.materialPlanes = Some(<< >>)]
                 ELSE ls
    IN  [restored EXCEPT !.planes = None]

-----------------------------------------------------------------------------
(* Layer manager.  Each operator gives, for every layer, the record the    *)
(* layer has after the calls; `from` is the record it had before them.     *)

Current == PerLayer([l \in LayerSet |-> LayerState(l)])

\* applyClippingToSelectedLayers (and the WebGPU branches of
\* applyRealtimeClipping and updateClippingOnPolygonMove).
applyClippingToSelectedLayers(from, checked, polygon, direction, webgpu) ==
    PerLayer([l \in LayerSet |->
        IF checked[l] /\ visible[l]
        THEN clipSphereWithPolygon(from[l], polygon, direction, webgpu)
        ELSE from[l]])

applyRealtimeClipping(from, checked, polygon, direction, webgpu) ==
    IF webgpu
    THEN applyClippingToSelectedLayers(from, checked, polygon, direction, webgpu)
    ELSE PerLayer([l \in LayerSet |->
            IF visible[l] THEN updateMaterialClipping(from[l], polygon, direction)
                          ELSE from[l]])

\* A variant of restoreAllLayers that passes over the layers that are hidden.
restoreVisibleLayers(from, webgpu) ==
    PerLayer([l \in LayerSet |->
        IF visible[l] THEN restoreOriginalGeometry(from[l], webgpu) ELSE from[l]])

restoreAllLayers(from, webgpu) ==
    PerLayer([l \in LayerSet |-> restoreOriginalGeometry(from[l], webgpu)])

clipVisibleLayers(from, polygon, direction, webgpu) ==
    PerLayer([l \in LayerSet |->
        IF visible[l]
        THEN clipSphereWithPolygon(from[l], polygon, direction, webgpu)
        ELSE from[l]])

reapplyClippingToAllLayers(from, polygon, direction, webgpu) ==
    clipVisibleLayers(restoreAllLayers(from, webgpu), polygon, direction, webgpu)

\* A variant of handleLayerSelectionChange that, on selection, clips every layer
\* instead of the named one.
handleLayerSelectionChangeAll(from, layerName, isSelected, realtime, polygon, direction, webgpu) ==
    IF ~realtime THEN from
    ELSE IF isSelected
         THEN clipVisibleLayers(from, polygon, direction, webgpu)
         ELSE PerLayer([from EXCEPT ![layerName] =
                            restoreOriginalGeometry(from[layerName], webgpu)])

handleLayerSelectionChange(from, layerName, isSelected, realtime, polygon, direction, webgpu) ==
    IF ~realtime THEN from
    ELSE PerLayer([from EXCEPT ![layerName] =
            IF isSelected
            THEN clipSphereWithPolygon(from[layerName], polygon, direction, webgpu)
            ELSE restoreOriginalGeometry(from[layerName], webgpu)])

\* The clipping follow-up of updatePolygonPosition and updatePolygonTransform:
\* applyRealtimeClipping when real-time clipping is on; otherwise
\* updateClippingOnPolygonMove, which returns at once.
clippingFollowUp(from, checked, realtime, polygon, direction, webgpu) ==
    IF realtime THEN applyRealtimeClipping(from, checked, polygon, direction, webgpu)
    ELSE from

PlanesLength(ls) ==
    IF IsSome(ls.planes) THEN Len(Get(ls.planes)) ELSE 0

WithinBounds(new) == \A l \in LayerSet : PlanesLength(new[l]) <= MaxPlanes

\* The layers take the records `new`.
SetLayers(new) ==
    /\ WithinBounds(new)
    /\ geometry' = [l \in LayerSet |-> new[l].geometry]
    /\ materialPlanes' = [l \in LayerSet |-> new[l].materialPlanes]
    /\ clipIntersection' = [l \in LayerSet |-> new[l].clipIntersection]
    /\ originalGeometries' = [l \in LayerSet |-> new[l].original]
    /\ geometryObject' = [l \in LayerSet |-> new[l].object]
    /\ clippingPlanes' = [l \in LayerSet |-> new[l].planes]

-----------------------------------------------------------------------------
(* Initial state: the state init() leaves once setupScene has run.  The   *)
(* renderer is a WebGPURenderer (setupScene), whose isWebGPURenderer flag  *)
(* is set by the rendering library; InitMaterial is the same state with a  *)
(* renderer that does not carry the flag, the case the program's           *)
(* `else` branches (material clipping) are written for.  The clip          *)
(* checkboxes start as the page has them, which the program does not set.  *)

InitLayers ==
    /\ visible = [l \in LayerSet |-> TRUE]
    /\ geometry = createEarthLayers
    /\ materialPlanes = [l \in LayerSet |-> None]
    /\ clipIntersection = [l \in LayerSet |-> FALSE]
    /\ originalGeometries = [l \in LayerSet |-> None]
    /\ geometryObject = [l \in LayerSet |-> "SphereGeometry"]
    /\ clippingPlanes = [l \in LayerSet |-> None]

InitTransform ==
    /\ polygonAxis = "z"
    /\ polygonPosition = 0
    /\ polygonRotationAxis = "x"
    /\ polygonRotation = 0
    /\ polygonWidth = 50
    /\ polygonHeight = 50

\* The brush as the constructor sets it, and a terrain no handler has written.
InitBrush ==
    /\ mode = "extrude"
    /\ brushSize = 20
    /\ intensity = 2
    /\ needsUpdate = FALSE
    /\ normalsComputed = FALSE

\* init() has run to its end: the device is obtained, the control handlers and
\* the canvas listeners are registered and the render loop is started.
Started ==
    [step |-> "done", device |-> TRUE, controls |-> TRUE, listeners |-> TRUE,
     renderLoop |-> TRUE]

InitCapture ==
    /\ isDrawingPolygon = FALSE
    /\ isEditing = FALSE
    /\ isDragging = FALSE
    /\ polygonPoints = << >>
    /\ polygonVertices = 0
    /\ polygonLines = None
    /\ polygonArea = None
    /\ previewsInScene = [vertices |-> 0, lines |-> 0, area |-> 0]
    /\ loading = 0
    /\ rejectedLoads = 0
    /\ startup = Started

\* The resolution console after setupScene on a page whose fields hold
\* `widthValue` and `heightValue`: readInitialSegments has run, createTerrain has
\* written the count texts and every layer has been added to the scene.
InitConsole(widthValue, heightValue) ==
    /\ customWidth = widthValue
    /\ customHeight = heightValue
    /\ currentSegments = readInitialSegments(widthValue, heightValue)
    /\ segmentCount = Some(<<currentSegments.width, currentSegments.height>>)
    /\ vertexCount = Some((currentSegments.width + 1) * (currentSegments.height + 1))
    /\ triangleCount = Some(currentSegments.width * currentSegments.height * 2)
    /\ inScene = [l \in LayerSet |-> TRUE]

InitSession ==
    /\ InitLayers
    /\ clipChecked \in [LayerSet -> BOOLEAN]
    /\ realtimeClipping = FALSE
    /\ clippingDirection = "inside"
    /\ InitTransform
    /\ clippingPolygon = Some(RectanglePoints(50, 50))
    /\ originalPolygonPoints = Some(RectanglePoints(50, 50))
    /\ sphereCylinders = RectanglePoints(50, 50)
    /\ spherePolygon = Some(RectanglePoints(50, 50))
    /\ InitCapture
    /\ InitBrush

InitScene ==
    /\ InitSession
    /\ InitConsole(Some(MinSegments), Some(MinSegments))

Init == isWebGPURenderer = TRUE /\ InitScene

InitMaterial == isWebGPURenderer = FALSE /\ InitScene

-----------------------------------------------------------------------------
(* Handlers of setupControls.                                              *)

\* crustToggle / mantleToggle / coreToggle 'change': the box is flipped and the
\* layer's visible flag takes its value.
LayerToggle(l) ==
    /\ visible' = [visible EXCEPT ![l] = ~visible[l]]
    /\ UNCHANGED <<isWebGPURenderer, startup, loadVars, brushVars, bufferVars, consoleVars, captureVars, geometry, materialPlanes, clipIntersection,
                   originalGeometries, geometryObject, clippingPlanes, sessionVars, polygonVars>>

\* realtimeClippingToggle 'change'.
RealtimeClippingToggle ==
    /\ realtimeClipping' = ~realtimeClipping
    /\ IF realtimeClipping'
       THEN /\ clipChecked' = [l \in LayerSet |-> TRUE]
            /\ SetLayers(applyClippingToSelectedLayers(Current, clipChecked',
                            clippingPolygon, clippingDirection, isWebGPURenderer))
       ELSE /\ clipChecked' = clipChecked
            /\ SetLayers(restoreAllLayers(Current, isWebGPURenderer))
    /\ UNCHANGED <<isWebGPURenderer, startup, loadVars, brushVars, bufferVars, consoleVars, captureVars, visible, clippingDirection, polygonVars>>

\* clipCrust / clipMantle / clipCore 'change'.
ClipCheckboxChange(l) ==
    /\ clipChecked' = [clipChecked EXCEPT ![l] = ~clipChecked[l]]
    /\ SetLayers(handleLayerSelectionChange(Current, l, clipChecked'[l], realtimeClipping,
                    clippingPolygon, clippingDirection, isWebGPURenderer))
    /\ UNCHANGED <<isWebGPURenderer, startup, loadVars, brushVars, bufferVars, consoleVars, captureVars, visible, realtimeClipping, clippingDirection,
                   polygonVars>>

\* restoreAll 'click'.
RestoreAllClick ==
    /\ SetLayers(restoreAllLayers(Current, isWebGPURenderer))
    /\ UNCHANGED <<isWebGPURenderer, startup, loadVars, brushVars, bufferVars, consoleVars, captureVars, visible, sessionVars, polygonVars>>

\* clippingDirection 'change'.
ClippingDirectionChange(value) ==
    /\ value # clippingDirection
    /\ clippingDirection' = value
    /\ SetLayers(reapplyClippingToAllLayers(Current, clippingPolygon, value,
                    isWebGPURenderer))
    /\ UNCHANGED <<isWebGPURenderer, startup, loadVars, brushVars, bufferVars, consoleVars, captureVars, visible, clipChecked, realtimeClipping, polygonVars>>

\* updatePolygonPosition with the transform parameters as given.
updatePolygonPosition(rotAxis, rotation, axis, position) ==
    IF ~IsSome(originalPolygonPoints) \/ ~IsSome(clippingPolygon)
    THEN UNCHANGED <<clippingPolygon, sphereCylinders, spherePolygon, layerVars>>
    ELSE /\ clippingPolygon' =
                Some(PositionPoints(Get(originalPolygonPoints), rotAxis, rotation,
                                    axis, position))
         /\ sphereCylinders' =
                VisualCylinders(Get(clippingPolygon'), sphereCylinders, spherePolygon)
         /\ spherePolygon' = VisualFill(Get(clippingPolygon'), spherePolygon)
         /\ SetLayers(clippingFollowUp(Current, clipChecked, realtimeClipping,
                        clippingPolygon', clippingDirection, isWebGPURenderer))
         /\ UNCHANGED visible

\* A variant of updatePolygonTransform without the clipping follow-up.
updatePolygonTransformOnly(rotAxis, rotation, axis, position) ==
    IF ~IsSome(originalPolygonPoints) \/ ~IsSome(clippingPolygon)
    THEN UNCHANGED <<clippingPolygon, sphereCylinders, spherePolygon, layerVars>>
    ELSE /\ clippingPolygon' =
                Some(TransformPoints(Get(originalPolygonPoints), rotAxis, rotation,
                                     axis, position))
         /\ sphereCylinders' =
                VisualCylinders(Get(clippingPolygon'), sphereCylinders, spherePolygon)
         /\ spherePolygon' = VisualFill(Get(clippingPolygon'), spherePolygon)
         /\ UNCHANGED layerVars

\* updatePolygonTransform with the transform parameters as given.
updatePolygonTransform(rotAxis, rotation, axis, position) ==
    IF ~IsSome(originalPolygonPoints) \/ ~IsSome(clippingPolygon)
    THEN UNCHANGED <<clippingPolygon, sphereCylinders, spherePolygon, layerVars>>
    ELSE /\ clippingPolygon' =
                Some(TransformPoints(Get(originalPolygonPoints), rotAxis, rotation,
                                     axis, position))
         /\ sphereCylinders' =
                VisualCylinders(Get(clippingPolygon'), sphereCylinders, spherePolygon)
         /\ spherePolygon' = VisualFill(Get(clippingPolygon'), spherePolygon)
         /\ SetLayers(clippingFollowUp(Current, clipChecked, realtimeClipping,
                        clippingPolygon', clippingDirection, isWebGPURenderer))
         /\ UNCHANGED visible

\* polygonAxis 'change'.
PolygonAxisChange(value) ==
    /\ value # polygonAxis
    /\ polygonAxis' = value
    /\ updatePolygonPosition(polygonRotationAxis, polygonRotation, value, polygonPosition)
    /\ UNCHANGED <<isWebGPURenderer, startup, loadVars, brushVars, bufferVars, consoleVars, captureVars, sessionVars, originalPolygonPoints, polygonPosition,
                   polygonRotationAxis, polygonRotation, polygonWidth, polygonHeight>>

\* polygonPosition 'input'.
PolygonPositionInput(value) ==
    /\ value # polygonPosition
    /\ polygonPosition' = value
    /\ updatePolygonPosition(polygonRotationAxis, polygonRotation, polygonAxis, value)
    /\ UNCHANGED <<isWebGPURenderer, startup, loadVars, brushVars, bufferVars, consoleVars, captureVars, sessionVars, originalPolygonPoints, polygonAxis,
                   polygonRotationAxis, polygonRotation, polygonWidth, polygonHeight>>

\* polygonRotationAxis 'change'.
PolygonRotationAxisChange(value) ==
    /\ value # polygonRotationAxis
    /\ polygonRotationAxis' = value
    /\ updatePolygonTransform(value, polygonRotation, polygonAxis, polygonPosition)
    /\ UNCHANGED <<isWebGPURenderer, startup, loadVars, brushVars, bufferVars, consoleVars, captureVars, sessionVars, originalPolygonPoints, polygonAxis,
                   polygonPosition, polygonRotation, polygonWidth, polygonHeight>>

\* polygonRotation 'input'.
PolygonRotationInput(value) ==
    /\ value # polygonRotation
    /\ polygonRotation' = value
    /\ updatePolygonTransform(polygonRotationAxis, value, polygonAxis, polygonPosition)
    /\ UNCHANGED <<isWebGPURenderer, startup, loadVars, brushVars, bufferVars, consoleVars, captureVars, sessionVars, originalPolygonPoints, polygonAxis,
                   polygonPosition, polygonRotationAxis, polygonWidth, polygonHeight>>

\* updatePolygonSize with the size as given: recreatePolygon (clearPolygon, four
\* fresh points, createPolygonVisuals), then applyRealtimeClipping when on.
updatePolygonSize(width, height) ==
    IF ~IsSome(originalPolygonPoints)
    THEN /\ UNCHANGED <<clippingPolygon, originalPolygonPoints, sphereCylinders,
                        spherePolygon, visible>>
         /\ SetLayers(clippingFollowUp(Current, clipChecked, realtimeClipping,
                        clippingPolygon, clippingDirection, isWebGPURenderer))
    ELSE /\ clippingPolygon' = Some(RectanglePoints(width, height))
         /\ originalPolygonPoints' = Some(RectanglePoints(width, height))
         /\ sphereCylinders' = RectanglePoints(width, height)
         /\ spherePolygon' = Some(RectanglePoints(width, height))
         /\ SetLayers(clippingFollowUp(Current, clipChecked, realtimeClipping,
                        clippingPolygon', clippingDirection, isWebGPURenderer))
         /\ UNCHANGED visible

\* polygonWidth 'input'.
PolygonWidthInput(value) ==
    /\ value # polygonWidth
    /\ polygonWidth' = value
    /\ updatePolygonSize(value, polygonHeight)
    /\ UNCHANGED <<isWebGPURenderer, startup, loadVars, brushVars, bufferVars, consoleVars, captureVars, sessionVars, polygonAxis, polygonPosition,
                   polygonRotationAxis, polygonRotation, polygonHeight>>

\* polygonHeight 'input'.
PolygonHeightInput(value) ==
    /\ value # polygonHeight
    /\ polygonHeight' = value
    /\ updatePolygonSize(polygonWidth, value)
    /\ UNCHANGED <<isWebGPURenderer, startup, loadVars, brushVars, bufferVars, consoleVars, captureVars, sessionVars, polygonAxis, polygonPosition,
                   polygonRotationAxis, polygonRotation, polygonWidth>>

PolygonChange ==
    \/ \E value \in Axes : PolygonAxisChange(value)
    \/ \E value \in PositionValues : PolygonPositionInput(value)
    \/ \E value \in Axes : PolygonRotationAxisChange(value)
    \/ \E value \in RotationValues : PolygonRotationInput(value)
    \/ \E value \in SizeValues : PolygonWidthInput(value)
    \/ \E value \in SizeValues : PolygonHeightInput(value)

-----------------------------------------------------------------------------
(* Polygon capture.  A preview object is represented by the number of      *)
(* captured points it was built from; the scene graph is followed only     *)
(* through the references the program keeps.                               *)

\* Where a click can hit the terrain: three points near the crust surface.
HitPoints == {<<-40, -20, 22>>, <<40, -20, 22>>, <<0, 45, 21>>}

\* clearPolygon, as the class defines it last (the definition at the end of
\* the class body replaces the earlier one): the clip polygon's cylinders and
\* fill are removed.
clearPolygon ==
    /\ sphereCylinders' = << >>
    /\ spherePolygon' = None

\* The edge test of isPointInPolygon for the edge from pj to pi, with the
\* division multiplied out.
Crosses(point, pi, pj) ==
    /\ (pi[2] > point[2]) # (pj[2] > point[2])
    /\ IF pj[2] - pi[2] > 0
       THEN (point[1] - pi[1]) * (pj[2] - pi[2]) < (pj[1] - pi[1]) * (point[2] - pi[2])
       ELSE (point[1] - pi[1]) * (pj[2] - pi[2]) > (pj[1] - pi[1]) * (point[2] - pi[2])

\* isPointInPolygon: an odd number of edges is crossed.
isPointInPolygon(point, polygon) ==
    LET n == Len(polygon)
    IN  Cardinality({i \in 1..n :
            Crosses(point, polygon[i], polygon[IF i = 1 THEN n ELSE i - 1])}) % 2 = 1

\* The loop of applyPolygonEdit ('extrude'): every vertex inside the polygon
\* moves outwards along its direction by the intensity.
EditedPositions(positions, polygon) ==
    Tuple([k \in 1..Len(positions) |->
        IF isPointInPolygon(positions[k], polygon)
        THEN Add(positions[k], NormalizeTo(positions[k], intensity))
        ELSE positions[k]])

\* A variant of the write in which the stored original shares the position
\* array of the mesh, whatever object the mesh refers to.
WritePositionsShared(l, positions) ==
    /\ geometry' = [geometry EXCEPT ![l].position = positions]
    /\ originalGeometries' =
            IF IsSome(originalGeometries[l])
            THEN [originalGeometries EXCEPT ![l] =
                    Some([Get(originalGeometries[l]) EXCEPT !.position = positions])]
            ELSE originalGeometries

\* A write into the position array of the geometry the mesh of layer l refers
\* to.  The array belongs to that object: were it the stored original, the
\* stored original would be written.
WritePositions(l, positions) ==
    /\ geometry' = [geometry EXCEPT ![l].position = positions]
    /\ originalGeometries' =
            IF geometryObject[l] = "original" /\ IsSome(originalGeometries[l])
            THEN [originalGeometries EXCEPT ![l] =
                    Some([Get(originalGeometries[l]) EXCEPT !.position = positions])]
            ELSE originalGeometries

\* A variant of the end of the writing handlers that marks nothing.
MarkNever(edited) ==
    UNCHANGED bufferVars

\* A variant of the end of the writing handlers that marks the terrain whether or not a
\* vertex was written.
MarkAlways(edited) ==
    needsUpdate' = TRUE /\ normalsComputed' = TRUE

\* What the writing handlers do once the loop is over: `if (edited)`
\* position.needsUpdate = true and computeVertexNormals().
MarkEdited(edited) ==
    IF edited
    THEN needsUpdate' = TRUE /\ normalsComputed' = TRUE
    ELSE UNCHANGED bufferVars

\* The loop of applyPolygonEdit sets `edited` for a vertex inside the polygon.
InPolygonCount(positions, polygon) ==
    Cardinality({k \in 1..Len(positions) : isPointInPolygon(positions[k], polygon)})

WithinCoordinates(positions) ==
    \A k \in 1..Len(positions) : \A c \in 1..3 : Abs(positions[k][c]) <= MaxCoordinate

\* applyPolygonEdit: the terrain is the crust.
applyPolygonEdit ==
    IF Len(polygonPoints) < 3
    THEN UNCHANGED <<geometry, originalGeometries, bufferVars, sphereCylinders,
                     spherePolygon, polygonPoints>>
    ELSE /\ WritePositions("crust",
                EditedPositions(geometry["crust"].position, polygonPoints))
         /\ WithinCoordinates(geometry'["crust"].position)
         /\ MarkEdited(InPolygonCount(geometry["crust"].position, polygonPoints) > 0)
         /\ clearPolygon
         /\ polygonPoints' = << >>

\* polygonMode 'click': togglePolygonMode.
PolygonModeClick ==
    /\ isDrawingPolygon' = ~isDrawingPolygon
    /\ isEditing' = FALSE
    /\ IF isDrawingPolygon'
       THEN /\ polygonPoints' = << >>
            /\ UNCHANGED <<sphereCylinders, spherePolygon>>
       ELSE /\ clearPolygon
            /\ UNCHANGED polygonPoints
    /\ UNCHANGED <<isWebGPURenderer, startup, loadVars, brushVars, bufferVars, consoleVars, layerVars, sessionVars, clippingPolygon,
                   originalPolygonPoints, polygonAxis, polygonPosition,
                   polygonRotationAxis, polygonRotation, polygonWidth, polygonHeight,
                   isDragging, polygonVertices, polygonLines, polygonArea, previewsInScene>>

\* canvas 'mousedown' with the left button in polygon draw mode: addPolygonPoint
\* and drawPolygonPreview.  `hit` is the first intersection of the ray with
\* the terrain, if there is one.
CanvasMouseDown(hit) ==
    /\ isDrawingPolygon
    /\ IF IsSome(hit)
       THEN /\ Len(polygonPoints) < MaxPoints
            /\ polygonPoints' = Append(polygonPoints, Get(hit))
            /\ clearPolygon
            /\ polygonVertices' = Len(polygonPoints')
            /\ polygonLines' = IF Len(polygonPoints') >= 2
                                THEN Some(Len(polygonPoints')) ELSE polygonLines
            /\ polygonArea' = IF Len(polygonPoints') >= 3
                               THEN Some(Len(polygonPoints')) ELSE polygonArea
            /\ previewsInScene' =
                    [vertices |-> previewsInScene.vertices + Len(polygonPoints'),
                     lines |-> previewsInScene.lines
                                + (IF Len(polygonPoints') >= 2 THEN 1 ELSE 0),
                     area |-> previewsInScene.area
                                + (IF Len(polygonPoints') >= 3 THEN 1 ELSE 0)]
            /\ previewsInScene'.vertices <= MaxMarkers
       ELSE UNCHANGED <<polygonPoints, sphereCylinders, spherePolygon, polygonVertices,
                        polygonLines, polygonArea, previewsInScene>>
    /\ UNCHANGED <<isWebGPURenderer, startup, loadVars, brushVars, bufferVars, consoleVars, layerVars, sessionVars, clippingPolygon,
                   originalPolygonPoints, polygonAxis, polygonPosition,
                   polygonRotationAxis, polygonRotation, polygonWidth, polygonHeight,
                   isDrawingPolygon, isEditing, isDragging>>

\* A variant of the 'contextmenu' handler without the minimum of three points.
CanvasContextMenuAnyCount ==
    /\ IF isDrawingPolygon
       THEN /\ WritePositions("crust",
                   EditedPositions(geometry["crust"].position, polygonPoints))
            /\ WithinCoordinates(geometry'["crust"].position)
            /\ MarkEdited(InPolygonCount(geometry["crust"].position, polygonPoints) > 0)
            /\ clearPolygon
            /\ polygonPoints' = << >>
       ELSE UNCHANGED <<geometry, originalGeometries, bufferVars, sphereCylinders,
                        spherePolygon, polygonPoints>>
    /\ UNCHANGED <<isWebGPURenderer, startup, loadVars, brushVars, consoleVars, visible, materialPlanes, clipIntersection,
                   geometryObject, clippingPlanes, sessionVars, clippingPolygon,
                   originalPolygonPoints, polygonAxis, polygonPosition,
                   polygonRotationAxis, polygonRotation, polygonWidth, polygonHeight,
                   isDrawingPolygon, isEditing, isDragging, polygonVertices, polygonLines,
                   polygonArea, previewsInScene>>

\* canvas 'contextmenu': the finish gesture.
CanvasContextMenu ==
    /\ IF isDrawingPolygon /\ Len(polygonPoints) >= 3
       THEN applyPolygonEdit
       ELSE UNCHANGED <<geometry, originalGeometries, bufferVars, sphereCylinders,
                        spherePolygon, polygonPoints>>
    /\ UNCHANGED <<isWebGPURenderer, startup, loadVars, brushVars, consoleVars, visible, materialPlanes, clipIntersection,
                   geometryObject, clippingPlanes, sessionVars, clippingPolygon,
                   originalPolygonPoints, polygonAxis, polygonPosition,
                   polygonRotationAxis, polygonRotation, polygonWidth, polygonHeight,
                   isDrawingPolygon, isEditing, isDragging, polygonVertices, polygonLines,
                   polygonArea, previewsInScene>>

-----------------------------------------------------------------------------
(* Brush editing and smoothing of the terrain, which is the crust.         *)

\* Where a brush click can hit the terrain: on a crust vertex and near it.
BrushPoints == {<<50, 0, 0>>, <<48, 8, 0>>}

\* The loop body of editTerrain for one vertex: within the brush the vertex
\* moves along its direction by the intensity times the smoothstep falloff of
\* its distance to the hit point, outwards or inwards by the mode.  The
\* distance is taken in tenths, its ratio to the brush size in hundredths and
\* the falloff in thousandths.
BrushedVertex(vertex, localPoint, brushMode) ==
    LET offset == Sub(vertex, localPoint)
        squared == Dot(offset, offset)
    IN  IF brushSize <= 0 \/ squared >= brushSize * brushSize THEN vertex
        ELSE LET normalizedDistance == (ISqrt(squared * 100) * 10) \div brushSize
                 influence == 1000 - Trunc(3 * normalizedDistance * normalizedDistance * 100
                                    - 2 * normalizedDistance * normalizedDistance
                                        * normalizedDistance, 1000)
                 change == intensity * influence
                 len == ISqrt(Dot(vertex, vertex))
                 l == IF len = 0 THEN 1 ELSE len
                 step == <<Trunc(vertex[1] * change, l * 1000),
                           Trunc(vertex[2] * change, l * 1000),
                           Trunc(vertex[3] * change, l * 1000)>>
             IN  CASE brushMode = "extrude" -> Add(vertex, step)
                   [] brushMode = "compress" -> Sub(vertex, step)
                   [] OTHER -> vertex

\* changedVertexIndices.size / 3: the vertices the loop wrote, which are those
\* a coordinate of which moved by more than the threshold.  The threshold of
\* 0.001 is below one unit of the integer coordinates.
ChangedCount(positions, localPoint, brushMode) ==
    Cardinality({k \in 1..Len(positions) :
        \E c \in 1..3 :
            Abs(BrushedVertex(positions[k], localPoint, brushMode)[c] - positions[k][c]) > 0})

BrushedPositions(positions, localPoint, brushMode) ==
    Tuple([k \in 1..Len(positions) |-> BrushedVertex(positions[k], localPoint, brushMode)])

\* this.terrain, which createEarthLayers sets to the crust mesh before the
\* listeners are installed.
terrain == Some("crust")

\* editTerrain: `hit` is the first intersection of the ray with the terrain.
editTerrain(hit) ==
    IF IsSome(terrain) /\ IsSome(hit)
    THEN /\ WritePositions("crust",
                BrushedPositions(geometry["crust"].position, Get(hit), mode))
         /\ MarkEdited(ChangedCount(geometry["crust"].position, Get(hit), mode) > 0)
    ELSE UNCHANGED <<geometry, originalGeometries, bufferVars>>

\* The loop body of smoothGlobe: the vertex moves to 0.8 of its radius plus 0.2
\* of the base radius.
SmoothedVertex(vertex) ==
    LET currentRadius == ISqrt(Dot(vertex, vertex))
        smoothedRadius == Trunc(currentRadius * 8 + baseRadius * 2, 10)
    IN  NormalizeTo(vertex, smoothedRadius)

SmoothedPositions(positions) ==
    Tuple([k \in 1..Len(positions) |-> SmoothedVertex(positions[k])])

\* smoothGlobe 'click'.
SmoothGlobeClick ==
    /\ WritePositions("crust", SmoothedPositions(geometry["crust"].position))
    /\ MarkEdited(TRUE)
    /\ UNCHANGED <<isWebGPURenderer, startup, loadVars, brushVars, consoleVars, captureVars, visible, materialPlanes,
                   clipIntersection, geometryObject, clippingPlanes, sessionVars,
                   polygonVars>>

\* editMode 'click': toggleEditMode.
EditModeClick ==
    /\ isEditing' = ~isEditing
    /\ UNCHANGED <<isWebGPURenderer, startup, loadVars, brushVars, bufferVars, consoleVars, layerVars, sessionVars, polygonVars,
                   isDrawingPolygon, isDragging, polygonPoints, polygonVertices,
                   polygonLines, polygonArea, previewsInScene>>

\* canvas 'mousedown' with the left button outside polygon draw mode, in edit
\* mode: the drag begins and the brush is applied.
CanvasMouseDownEditing(hit) ==
    /\ ~isDrawingPolygon
    /\ isEditing
    /\ isDragging' = TRUE
    /\ editTerrain(hit)
    /\ UNCHANGED <<isWebGPURenderer, startup, loadVars, brushVars, consoleVars, visible, materialPlanes, clipIntersection,
                   geometryObject, clippingPlanes, sessionVars, polygonVars,
                   isDrawingPolygon, isEditing, polygonPoints, polygonVertices,
                   polygonLines, polygonArea, previewsInScene>>

\* canvas 'mousemove' in edit mode during a drag: the brush is applied again.
CanvasMouseMove(hit) ==
    /\ isEditing
    /\ isDragging
    /\ editTerrain(hit)
    /\ UNCHANGED <<isWebGPURenderer, startup, loadVars, brushVars, consoleVars, captureVars, visible, materialPlanes,
                   clipIntersection, geometryObject, clippingPlanes, sessionVars,
                   polygonVars>>

\* canvas 'mouseup' with the left button.
CanvasMouseUp ==
    /\ isDragging' = FALSE
    /\ UNCHANGED <<isWebGPURenderer, startup, loadVars, brushVars, bufferVars, consoleVars, layerVars, sessionVars, polygonVars,
                   isDrawingPolygon, isEditing, polygonPoints, polygonVertices,
                   polygonLines, polygonArea, previewsInScene>>

\* brushSize 'input': the slider's number is stored.
BrushSizeInput(value) ==
    /\ brushSize' = value
    /\ UNCHANGED <<isWebGPURenderer, startup, loadVars, bufferVars, consoleVars, captureVars, layerVars,
                   sessionVars, polygonVars, mode, intensity>>

\* intensity 'input'.
IntensityInput(value) ==
    /\ intensity' = value
    /\ UNCHANGED <<isWebGPURenderer, startup, loadVars, bufferVars, consoleVars, captureVars, layerVars,
                   sessionVars, polygonVars, mode, brushSize>>

\* extrudeBtn / compressBtn 'click': setMode.
setMode(newMode) ==
    /\ mode' = newMode
    /\ UNCHANGED <<isWebGPURenderer, startup, loadVars, bufferVars, consoleVars, captureVars, layerVars,
                   sessionVars, polygonVars, brushSize, intensity>>

\* animate: the frame is rendered, which takes up what the handlers marked on
\* the terrain since the frame before.
animate ==
    /\ needsUpdate' = FALSE
    /\ normalsComputed' = FALSE
    /\ UNCHANGED <<isWebGPURenderer, startup, loadVars, brushVars, consoleVars, captureVars, layerVars,
                   sessionVars, polygonVars>>

-----------------------------------------------------------------------------
(* Resolution console.  A field value is what parseInt makes of the field: *)
(* a number, or nothing for NaN.                                           *)

\* What the two fields can hold after an 'input' event.
FieldValues == {None, Some(0), Some(7), Some(8), Some(16), Some(1024), Some(1025)}

\* What the fields hold on load: values readInitialSegments turns into the
\* segment counts the layers of the model are created with.
InitialFieldValues == {Some(7), Some(8)}

\* The (data-width, data-height) pairs of the preset buttons.
PresetButtons == {<<16, 8>>, <<1024, 1024>>}

\* updateConsoleDisplay for the segment counts `segments`.
updateConsoleDisplay(segments) ==
    /\ segmentCount' = Some(<<segments.width, segments.height>>)
    /\ vertexCount' = Some((segments.width + 1) * (segments.height + 1))
    /\ triangleCount' = Some(segments.width * segments.height * 2)

\* The body both resolution handlers share once the new counts are stored:
\* this.scene.remove(this.terrain), where the terrain is the crust;
\* createTerrain, which creates no mesh and calls updateConsoleDisplay; the
\* wireframe flag of the same material set again; updateConsoleDisplay.
replaceTerrain(segments) ==
    /\ inScene' = [inScene EXCEPT !["crust"] = FALSE]
    /\ updateConsoleDisplay(segments)

\* A variant of the test of updateSegmentsIfValid without the range.
AnyNumber(parsed) ==
    IsSome(parsed) /\ Get(parsed) # 0

\* A variant of the test of updateSegmentsIfValid without the lower end.
NotAboveMaximum(parsed) ==
    /\ IsSome(parsed)
    /\ Get(parsed) # 0
    /\ Get(parsed) <= MaxSegments

\* The test of updateSegmentsIfValid on one parsed field.
ValidSegments(parsed) ==
    /\ IsSome(parsed)
    /\ Get(parsed) # 0
    /\ Get(parsed) >= MinSegments
    /\ Get(parsed) <= MaxSegments

\* updateSegmentsIfValid with the fields holding widthValue and heightValue.
updateSegmentsIfValid(widthValue, heightValue) ==
    IF /\ ValidSegments(widthValue)
       /\ ValidSegments(heightValue)
       /\ (Get(widthValue) # currentSegments.width
            \/ Get(heightValue) # currentSegments.height)
    THEN /\ currentSegments' = [width |-> Get(widthValue), height |-> Get(heightValue)]
         /\ replaceTerrain(currentSegments')
    ELSE UNCHANGED <<currentSegments, segmentCount, vertexCount, triangleCount, inScene>>

\* customWidth 'input'.
CustomWidthInput(value) ==
    /\ value # customWidth
    /\ customWidth' = value
    /\ updateSegmentsIfValid(value, customHeight)
    /\ UNCHANGED <<isWebGPURenderer, startup, loadVars, brushVars, bufferVars, layerVars, sessionVars, polygonVars, captureVars,
                   customHeight>>

\* customHeight 'input'.
CustomHeightInput(value) ==
    /\ value # customHeight
    /\ customHeight' = value
    /\ updateSegmentsIfValid(customWidth, value)
    /\ UNCHANGED <<isWebGPURenderer, startup, loadVars, brushVars, bufferVars, layerVars, sessionVars, polygonVars, captureVars,
                   customWidth>>

\* .preset-btn 'click' on the button with the given data-width and data-height.
PresetClick(button) ==
    /\ customWidth' = Some(button[1])
    /\ customHeight' = Some(button[2])
    /\ currentSegments' = [width |-> button[1], height |-> button[2]]
    /\ replaceTerrain(currentSegments')
    /\ UNCHANGED <<isWebGPURenderer, startup, loadVars, brushVars, bufferVars, layerVars, sessionVars, polygonVars, captureVars>>

-----------------------------------------------------------------------------
(* The clipping functions called one at a time.                            *)

\* The layers the single calls are made on.
CalledLayers == {"crust"}

\* The clip polygons the calls are made with: none; two points; the four
\* points of a rectangle of width 0, whose first three are collinear; the
\* rectangle the program starts with.
ClipPolygonInputs ==
    { None,
      Some(SubSeq(RectanglePoints(50, 50), 1, 2)),
      Some(RectanglePoints(0, 50)),
      Some(RectanglePoints(50, 50)) }

InitCalls ==
    /\ isWebGPURenderer = TRUE
    /\ InitLayers
    /\ InitConsole(Some(MinSegments), Some(MinSegments))
    /\ clipChecked = [l \in LayerSet |-> FALSE]
    /\ realtimeClipping = FALSE
    /\ clippingDirection \in Directions
    /\ InitTransform
    /\ clippingPolygon \in ClipPolygonInputs
    /\ originalPolygonPoints = clippingPolygon
    /\ sphereCylinders = (IF IsSome(clippingPolygon) THEN Get(clippingPolygon) ELSE << >>)
    /\ spherePolygon = clippingPolygon
    /\ InitCapture
    /\ InitBrush

\* One layer takes the record `new`.
SetLayer(l, new) == SetLayers(PerLayer([Current EXCEPT ![l] = new]))

\* The names the single calls are made with: the layers of CalledLayers and a
\* name no layer has.
RequestedLayers == CalledLayers \cup {"atmosphere"}

\* A variant of the switch that takes the crust for any other name.
TargetLayerOrCrust(targetLayer) ==
    IF targetLayer \in LayerSet THEN Some(targetLayer) ELSE Some("crust")

\* The switch of clipSphereWithPolygon and restoreOriginalGeometry and the
\* test of targetMesh after it: the layer whose mesh the name stands for, none
\* for any other name.  this.crust, this.mantle and this.core are meshes from
\* createEarthLayers on.
TargetLayer(targetLayer) ==
    IF targetLayer \in LayerSet THEN Some(targetLayer) ELSE None

\* this.clipSphereWithPolygon(targetLayer).
ClipSphereCall(targetLayer) ==
    /\ IF IsSome(TargetLayer(targetLayer))
       THEN LET l == Get(TargetLayer(targetLayer))
            IN  SetLayer(l, clipSphereWithPolygon(LayerState(l), clippingPolygon,
                            clippingDirection, isWebGPURenderer))
       ELSE UNCHANGED layerContents
    /\ UNCHANGED <<isWebGPURenderer, startup, loadVars, brushVars, bufferVars, consoleVars, captureVars, visible, sessionVars, polygonVars>>

\* this.updateMaterialClipping(l).
UpdateMaterialCall(l) ==
    /\ SetLayer(l, updateMaterialClipping(LayerState(l), clippingPolygon,
                    clippingDirection))
    /\ UNCHANGED <<isWebGPURenderer, startup, loadVars, brushVars, bufferVars, consoleVars, captureVars, visible, sessionVars, polygonVars>>

\* this.restoreOriginalGeometry(targetLayer).
RestoreCall(targetLayer) ==
    /\ IF IsSome(TargetLayer(targetLayer))
       THEN LET l == Get(TargetLayer(targetLayer))
            IN  SetLayer(l, restoreOriginalGeometry(LayerState(l), isWebGPURenderer))
       ELSE UNCHANGED layerContents
    /\ UNCHANGED <<isWebGPURenderer, startup, loadVars, brushVars, bufferVars, consoleVars, captureVars, visible, sessionVars, polygonVars>>

\* The specification of the layer manager: every clipping control, the layer
\* toggle of ToggledLayers and the polygon position slider.
Next ==
    \/ \E l \in ToggledLayers : LayerToggle(l)
    \/ RealtimeClippingToggle
    \/ \E l \in LayerSet : ClipCheckboxChange(l)
    \/ RestoreAllClick
    \/ \E value \in Directions : ClippingDirectionChange(value)
    \/ \E value \in PositionValues : PolygonPositionInput(value)

Spec == Init /\ [][Next]_vars

\* The same handlers with a renderer that takes the material branches.
SpecMaterial == InitMaterial /\ [][Next]_vars

\* The layer manager with either kind of renderer, fixed at construction.
SpecEither == (Init \/ InitMaterial) /\ [][Next]_vars

\* Clips and restores of the terrain layer together with everything that
\* edits the terrain: the brush on mousedown, smoothing and the polygon edit.
\* The three corners of a capture are clicked in the order of TrianglePoints (a
\* small triangle on the crust around the vertices with x = y = 0), the draw
\* mode is switched between captures and the edit mode outside the draw mode.
TrianglePoints == << <<-10, -10, 48>>, <<10, -10, 48>>, <<0, 10, 49>> >>

NextEdits ==
    \/ \E targetLayer \in RequestedLayers : ClipSphereCall(targetLayer)
    \/ \E targetLayer \in RequestedLayers : RestoreCall(targetLayer)
    \/ (~isDrawingPolygon /\ EditModeClick)
    \/ \E hit \in {Some(p) : p \in BrushPoints} :
            CanvasMouseDownEditing(hit) /\ WithinCoordinates(geometry'["crust"].position)
    \/ SmoothGlobeClick
    \/ (polygonPoints = << >> /\ PolygonModeClick)
    \/ (Len(polygonPoints) < Len(TrianglePoints)
            /\ CanvasMouseDown(Some(TrianglePoints[Len(polygonPoints) + 1])))
    \/ CanvasContextMenu

SpecEdits == Init /\ [][NextEdits]_vars

\* Clips and restores of the terrain layer together with the brush alone.
NextSculpt ==
    \/ \E targetLayer \in CalledLayers : ClipSphereCall(targetLayer)
    \/ \E targetLayer \in CalledLayers : RestoreCall(targetLayer)
    \/ EditModeClick
    \/ \E hit \in {Some(p) : p \in BrushPoints} :
            CanvasMouseDownEditing(hit) /\ WithinCoordinates(geometry'["crust"].position)
    \/ CanvasMouseUp

SpecSculpt == Init /\ [][NextSculpt]_vars

\* showLoading: the element is created and given its id, and the argument of
\* appendChild, `loading` followed by an empty template literal, calls the
\* element as a template tag.  An element is not callable: the evaluation
\* throws a TypeError before appendChild is called, and nothing is appended.
showLoading ==
    loading' = loading

\* loadHeightmap and loadPointCloud are async functions that call showLoading
\* before their await: the exception ends the call with a rejected promise,
\* which the listener drops, and the statements from the await on (the timer,
\* createTerrain or createPointCloud, hideLoading) are not reached.
loadHeightmap ==
    /\ showLoading
    /\ rejectedLoads' = rejectedLoads + 1

loadPointCloud ==
    /\ showLoading
    /\ rejectedLoads' = rejectedLoads + 1

\* loadTerrain 'click'.
LoadTerrainClick ==
    /\ rejectedLoads < MaxLoads
    /\ loadHeightmap
    /\ UNCHANGED <<isWebGPURenderer, startup, brushVars, bufferVars, consoleVars, captureVars,
                   layerVars, sessionVars, polygonVars>>

\* loadPointCloud 'click'.
LoadPointCloudClick ==
    /\ rejectedLoads < MaxLoads
    /\ loadPointCloud
    /\ UNCHANGED <<isWebGPURenderer, startup, brushVars, bufferVars, consoleVars, captureVars,
                   layerVars, sessionVars, polygonVars>>

\* The three handlers that write into the terrain's position array, with the
\* frames in between: brush clicks, smoothing, and captures of one triangle
\* with their finish gesture.
NextWrites ==
    \/ (~isDrawingPolygon /\ EditModeClick)
    \/ \E hit \in {Some(p) : p \in BrushPoints} :
            CanvasMouseDownEditing(hit) /\ WithinCoordinates(geometry'["crust"].position)
    \/ SmoothGlobeClick
    \/ (polygonPoints = << >> /\ PolygonModeClick)
    \/ (Len(polygonPoints) < Len(TrianglePoints)
            /\ CanvasMouseDown(Some(TrianglePoints[Len(polygonPoints) + 1])))
    \/ CanvasContextMenu
    \/ animate

SpecWrites == Init /\ [][NextWrites]_vars

\* The brush alone, with lengths in tenths of a unit so that the intensity
\* slider's steps of 0.1 and a vertex less than one unit from the centre are
\* within the resolution: the crust has radius 500, the constructor's brush
\* size is 200 and its intensity 20.  The clip polygon plays no part.
createEarthLayersTenths ==
    [l \in LayerSet |->
        SphereGeometry(10 * LayerRadius(l), InitialSegments.width, InitialSegments.height)]

InitTenths ==
    /\ isWebGPURenderer = TRUE
    /\ visible = [l \in LayerSet |-> TRUE]
    /\ geometry = createEarthLayersTenths
    /\ materialPlanes = [l \in LayerSet |-> None]
    /\ clipIntersection = [l \in LayerSet |-> FALSE]
    /\ originalGeometries = [l \in LayerSet |-> None]
    /\ geometryObject = [l \in LayerSet |-> "SphereGeometry"]
    /\ clippingPlanes = [l \in LayerSet |-> None]
    /\ InitConsole(Some(MinSegments), Some(MinSegments))
    /\ clipChecked = [l \in LayerSet |-> FALSE]
    /\ realtimeClipping = FALSE
    /\ clippingDirection = "inside"
    /\ InitTransform
    /\ clippingPolygon = Some(RectanglePoints(50, 50))
    /\ originalPolygonPoints = Some(RectanglePoints(50, 50))
    /\ sphereCylinders = RectanglePoints(50, 50)
    /\ spherePolygon = Some(RectanglePoints(50, 50))
    /\ InitCapture
    /\ mode = "extrude"
    /\ brushSize = 200
    /\ intensity = 20
    /\ needsUpdate = FALSE
    /\ normalsComputed = FALSE

\* The crust vertex the pointer is on: the fifth of the nine vertices of the
\* equator row, which starts at (500, 0, 0), wherever the brush has moved it.
HitVertex == 41

\* The middle of a crust face on the far side, 13 units from its corners.
FaceHit == <<-440, 90, 90>>

\* The slider values exercised: 0, 10 and 20 units for the brush size, 1.5 and
\* 2.0 for the intensity.
BrushModes == {"extrude", "compress"}
BrushSizeValues == {0, 100, 200}
IntensityValues == {15, 20}

\* The first intersection of the pointer's ray with the terrain: none, the
\* vertex under the pointer, or the face middle (with a brush that reaches none
\* of its corners).
BrushHits ==
    {None, Some(geometry["crust"].position[HitVertex])}
        \cup (IF brushSize <= 100 THEN {Some(FaceHit)} ELSE {})

\* No vertex is pushed beyond ten times MaxCoordinate, and the vertex under
\* the pointer not further than MaxCoordinate tenths past the centre.
WithinTenths ==
    /\ geometry'["crust"].position[HitVertex][1] >= -MaxCoordinate
    /\ WithinCoordinates([k \in 1..Len(geometry'["crust"].position) |->
        <<Trunc(geometry'["crust"].position[k][1], 10),
          Trunc(geometry'["crust"].position[k][2], 10),
          Trunc(geometry'["crust"].position[k][3], 10)>>])

NextBrush ==
    \/ \E value \in BrushSizeValues : BrushSizeInput(value)
    \/ \E value \in IntensityValues : IntensityInput(value)
    \/ \E newMode \in BrushModes : setMode(newMode)
    \/ EditModeClick
    \/ \E hit \in BrushHits : CanvasMouseDownEditing(hit) /\ WithinTenths
    \/ \E hit \in BrushHits : CanvasMouseMove(hit) /\ WithinTenths
    \/ CanvasMouseUp
    \/ animate

SpecBrush == InitTenths /\ [][NextBrush]_vars

\* The load buttons among the brush controls and the edit mode button.
NextLoads ==
    \/ LoadTerrainClick
    \/ LoadPointCloudClick
    \/ \E value \in BrushSizeValues : BrushSizeInput(value)
    \/ \E value \in IntensityValues : IntensityInput(value)
    \/ \E newMode \in BrushModes : setMode(newMode)
    \/ EditModeClick

SpecLoads == Init /\ [][NextLoads]_vars

\* The resolution console: the two fields and the preset buttons, from any
\* page whose fields read as the initial segment counts.
InitConsolePage ==
    /\ isWebGPURenderer = TRUE
    /\ InitSession
    /\ \E widthValue \in InitialFieldValues : \E heightValue \in InitialFieldValues :
            InitConsole(widthValue, heightValue)

NextConsole ==
    \/ \E value \in FieldValues : CustomWidthInput(value)
    \/ \E value \in FieldValues : CustomHeightInput(value)
    \/ \E button \in PresetButtons : PresetClick(button)

SpecConsole == InitConsolePage /\ [][NextConsole]_vars

-----------------------------------------------------------------------------
(* Initialisation.  The constructor sets the fields and calls init(), which *)
(* runs up to its first await; startup.step names the call init() makes or  *)
(* resumes next.  The thread is idle, so that registered handlers can run,  *)
(* while init() waits in setupWebGPU or setupScene and once it has ended.   *)

\* A variant of init() that sets up the controls before the scene.
initOrderControlsFirst ==
    <<"setupWebGPU", "setupControls", "setupScene", "setupEventListeners", "animate">>

\* The calls of init() in their order.
initOrder ==
    <<"setupWebGPU", "setupScene", "setupControls", "setupEventListeners", "animate">>

\* The call after `step`, "done" after the last.
RECURSIVE StepAfterFrom(_, _)
StepAfterFrom(step, k) ==
    IF k >= Len(initOrder) THEN "done"
    ELSE IF initOrder[k] = step THEN initOrder[k + 1]
    ELSE StepAfterFrom(step, k + 1)

StepAfter(step) == StepAfterFrom(step, 1)

\* The state the constructor leaves: no renderer, no layer, no clip polygon,
\* nothing registered; the page's segment fields hold the least counts.
InitConstructed ==
    /\ isWebGPURenderer = FALSE
    /\ visible = [l \in LayerSet |-> FALSE]
    /\ geometry = [l \in LayerSet |-> None]
    /\ materialPlanes = [l \in LayerSet |-> None]
    /\ clipIntersection = [l \in LayerSet |-> FALSE]
    /\ originalGeometries = [l \in LayerSet |-> None]
    /\ geometryObject = [l \in LayerSet |-> "null"]
    /\ clippingPlanes = [l \in LayerSet |-> None]
    /\ clipChecked = [l \in LayerSet |-> FALSE]
    /\ realtimeClipping = FALSE
    /\ clippingDirection = "inside"
    /\ InitTransform
    /\ clippingPolygon = None
    /\ originalPolygonPoints = None
    /\ sphereCylinders = << >>
    /\ spherePolygon = None
    /\ isDrawingPolygon = FALSE
    /\ isEditing = FALSE
    /\ isDragging = FALSE
    /\ polygonPoints = << >>
    /\ polygonVertices = 0
    /\ polygonLines = None
    /\ polygonArea = None
    /\ previewsInScene = [vertices |-> 0, lines |-> 0, area |-> 0]
    /\ loading = 0
    /\ rejectedLoads = 0
    /\ InitBrush
    /\ customWidth = Some(MinSegments)
    /\ customHeight = Some(MinSegments)
    /\ currentSegments = [width |-> 256, height |-> 128]
    /\ segmentCount = None
    /\ vertexCount = None
    /\ triangleCount = None
    /\ inScene = [l \in LayerSet |-> FALSE]
    /\ startup = [step |-> "setupWebGPU", device |-> FALSE, controls |-> FALSE,
                  listeners |-> FALSE, renderLoop |-> FALSE]

\* The catch of init(): showError; init() makes no further call.
InitFailed ==
    startup' = [startup EXCEPT !.step = "failed"]

\* What init() leaves alone outside setupScene.
SceneUnchanged ==
    UNCHANGED <<isWebGPURenderer, layerVars, sessionVars, polygonVars, captureVars,
                loadVars, brushVars, bufferVars, consoleVars>>

\* await this.setupWebGPU(): it throws without navigator.gpu or an adapter
\* (supported = FALSE) and obtains the device otherwise.
setupWebGPU(supported) ==
    /\ startup.step = "setupWebGPU"
    /\ IF supported
       THEN startup' = [startup EXCEPT !.step = StepAfter("setupWebGPU"), !.device = TRUE]
       ELSE InitFailed
    /\ SceneUnchanged

\* await this.setupScene(): the renderer is made; when renderer.init()
\* resolves (ready = TRUE), readInitialSegments, createTerrain and
\* createEarthLayers with createSpherePolygon run; when it rejects, none does.
setupScene(ready) ==
    /\ startup.step = "setupScene"
    /\ isWebGPURenderer' = TRUE
    /\ IF ready
       THEN /\ startup' = [startup EXCEPT !.step = StepAfter("setupScene")]
            /\ currentSegments' = readInitialSegments(customWidth, customHeight)
            /\ updateConsoleDisplay(currentSegments')
            /\ visible' = [l \in LayerSet |-> TRUE]
            /\ geometry' = [l \in LayerSet |->
                    SphereGeometry(LayerRadius(l), currentSegments'.width,
                                   currentSegments'.height)]
            /\ geometryObject' = [l \in LayerSet |-> "SphereGeometry"]
            /\ inScene' = [l \in LayerSet |-> TRUE]
            /\ clippingPolygon' = Some(RectanglePoints(polygonWidth, polygonHeight))
            /\ originalPolygonPoints' = clippingPolygon'
            /\ sphereCylinders' = Get(clippingPolygon')
            /\ spherePolygon' = clippingPolygon'
       ELSE /\ InitFailed
            /\ UNCHANGED <<currentSegments, segmentCount, vertexCount, triangleCount,
                           visible, geometry, geometryObject, inScene, clippingPolygon,
                           originalPolygonPoints, sphereCylinders, spherePolygon>>
    /\ UNCHANGED <<materialPlanes, clipIntersection, originalGeometries, clippingPlanes,
                   sessionVars, polygonAxis, polygonPosition, polygonRotationAxis,
                   polygonRotation, polygonWidth, polygonHeight, captureVars, loadVars,
                   brushVars, bufferVars, customWidth, customHeight>>

\* this.setupControls().
setupControls ==
    /\ startup.step = "setupControls"
    /\ startup' = [startup EXCEPT !.step = StepAfter("setupControls"), !.controls = TRUE]
    /\ SceneUnchanged

\* this.setupEventListeners().
setupEventListeners ==
    /\ startup.step = "setupEventListeners"
    /\ startup' = [startup EXCEPT !.step = StepAfter("setupEventListeners"),
                                  !.listeners = TRUE]
    /\ SceneUnchanged

\* The call of this.animate() in init(): the first frame is requested.
StartRenderLoop ==
    /\ startup.step = "animate"
    /\ startup' = [startup EXCEPT !.step = StepAfter("animate"), !.renderLoop = TRUE]
    /\ SceneUnchanged

\* init() waits or has ended: the event loop can run a handler.
Idle == startup.step \in {"setupWebGPU", "setupScene", "done", "failed"}

\* init() from the constructed state, and, whenever the thread is idle, the
\* handlers that are registered: the edit button and the brush controls, the
\* canvas listeners, the frame callback.
NextInit ==
    \/ \E supported \in BOOLEAN : setupWebGPU(supported)
    \/ \E ready \in BOOLEAN : setupScene(ready)
    \/ setupControls
    \/ setupEventListeners
    \/ StartRenderLoop
    \/ (Idle /\ startup.controls /\ EditModeClick)
    \/ (Idle /\ startup.controls /\ \E newMode \in {"extrude", "compress"} : setMode(newMode))
    \/ (Idle /\ startup.controls /\ \E value \in {10, 20} : BrushSizeInput(value))
    \/ (Idle /\ startup.listeners /\ \E hit \in {Some(p) : p \in BrushPoints} :
            CanvasMouseDownEditing(hit) /\ WithinCoordinates(geometry'["crust"].position))
    \/ (Idle /\ startup.listeners /\ CanvasMouseUp)
    \/ (Idle /\ startup.renderLoop /\ animate)

SpecInit == InitConstructed /\ [][NextInit]_vars

\* The polygon controls alone, from the initial state.
NextPolygon == PolygonChange

SpecPolygon == Init /\ [][NextPolygon]_vars

\* The four transform controls of the clip polygon with real-time clipping
\* switched on and off.
NextRecompute ==
    \/ \E value \in Axes : PolygonAxisChange(value)
    \/ \E value \in PositionValues : PolygonPositionInput(value)
    \/ \E value \in Axes : PolygonRotationAxisChange(value)
    \/ \E value \in RotationValues : PolygonRotationInput(value)
    \/ RealtimeClippingToggle

SpecRecompute == Init /\ [][NextRecompute]_vars

\* The clipping functions called on a layer for each kind of clip polygon,
\* together with the polygon capture handlers.
NextCalls ==
    \/ \E targetLayer \in RequestedLayers : ClipSphereCall(targetLayer)
    \/ \E l \in CalledLayers : UpdateMaterialCall(l)
    \/ \E targetLayer \in RequestedLayers : RestoreCall(targetLayer)
    \/ PolygonModeClick
    \/ \E hit \in {None} \cup {Some(p) : p \in HitPoints} : CanvasMouseDown(hit)
    \/ CanvasContextMenu

SpecCalls == InitCalls /\ [][NextCalls]_vars

\* The controls of the edit session's fields: brush size, intensity and mode,
\* the edit and polygon mode buttons, the real-time toggle, a clip checkbox
\* and the clipping direction.
NextSession ==
    \/ \E value \in {10} : BrushSizeInput(value)
    \/ \E value \in {1} : IntensityInput(value)
    \/ \E newMode \in BrushModes : setMode(newMode)
    \/ EditModeClick
    \/ PolygonModeClick
    \/ RealtimeClippingToggle
    \/ \E l \in ToggledLayers : ClipCheckboxChange(l)
    \/ \E value \in Directions : ClippingDirectionChange(value)

\* The page with no clip checkbox checked.
InitUnchecked == Init /\ clipChecked = [l \in LayerSet |-> FALSE]

SpecSession == InitUnchecked /\ [][NextSession]_vars

-----------------------------------------------------------------------------
(* Properties.                                                             *)

\* The mesh createEarthLayers gives a layer.
Pristine(l) == createEarthLayers[l]

Counts(g) == <<VertexCount(g), TriangleCount(g)>>

\* The layer has a recorded clip; the record made by the latest application.
CarriesClip(l) == IsSome(clippingPlanes[l]) /\ Len(Get(clippingPlanes[l])) > 0
LastRecord(l) == Get(clippingPlanes[l])[Len(Get(clippingPlanes[l]))]
RecordedPlane(r) == [normal |-> r.normal, d |-> r.d]

\* The plane of a polygon of at least three points.
PlaneOf(polygon) == Get(calculateClippingPlane(Get(polygon)))

\* The record of a layer after the step.
LayerStateAfter(l) ==
    [geometry |-> geometry'[l],
     materialPlanes |-> materialPlanes'[l],
     clipIntersection |-> clipIntersection'[l],
     original |-> originalGeometries'[l],
     object |-> geometryObject'[l],
     planes |-> clippingPlanes'[l]]

\* The step leaves everything the program keeps about the layer as it was.
LayerUntouched(l) ==
    /\ geometry'[l] = geometry[l]
    /\ materialPlanes'[l] = materialPlanes[l]
    /\ clipIntersection'[l] = clipIntersection[l]
    /\ originalGeometries'[l] = originalGeometries[l]
    /\ geometryObject'[l] = geometryObject[l]
    /\ clippingPlanes'[l] = clippingPlanes[l]

\* The step is a change of one of the polygon controls.
PolygonChanged ==
    <<polygonAxis, polygonPosition, polygonRotationAxis, polygonRotation,
      polygonWidth, polygonHeight>>' #
    <<polygonAxis, polygonPosition, polygonRotationAxis, polygonRotation,
      polygonWidth, polygonHeight>>

\* The step is a change of the enrollment of layer l by its own checkbox (the
\* real-time toggle, which also sets the boxes, changes realtimeClipping).
EnrollmentChanged(l) ==
    /\ clipChecked'[l] # clipChecked[l]
    /\ realtimeClipping' = realtimeClipping

\* The step applies a clip to layer l as the layer stood before the step: the
\* layer's record list is replaced by a longer or different one, and the step
\* is not a direction change (which restores the layer before it clips).
ClipAppliedTo(l) ==
    /\ clippingDirection' = clippingDirection
    /\ IsSome(clippingPlanes'[l])
    /\ clippingPlanes'[l] # clippingPlanes[l]

\* C1: under geometry clipping, a layer that carries a clip shows the
\* partition of its pristine mesh by the plane and direction of the latest
\* application, whatever clips and restores came before; the stored snapshot
\* is the pristine mesh.
ClipDependsOnlyOnSnapshot ==
    \A l \in LayerSet :
        /\ IsSome(originalGeometries[l]) => Get(originalGeometries[l]) = Pristine(l)
        /\ CarriesClip(l) =>
                geometry[l] = ClippedGeometry(Pristine(l), RecordedPlane(LastRecord(l)),
                                              LastRecord(l).direction)

\* C1 witness: a layer clipped twice with different planes, showing a strict
\* part of its pristine mesh.
ReclippedLayer ==
    \E l \in LayerSet :
        /\ CarriesClip(l)
        /\ Len(Get(clippingPlanes[l])) = 2
        /\ Get(clippingPlanes[l])[1] # Get(clippingPlanes[l])[2]
        /\ VertexCount(geometry[l]) < VertexCount(Pristine(l))
        /\ VertexCount(geometry[l]) > 0

\* C2 as stated: whenever a clip is applied to a layer, restoring the layer
\* afterwards gives the vertex and triangle counts the layer had immediately
\* before that clip.
RoundTripToPreClipCounts ==
    [][\A l \in LayerSet :
          ClipAppliedTo(l) =>
              Counts(restoreOriginalGeometry(LayerStateAfter(l), isWebGPURenderer).geometry)
                  = Counts(geometry[l])]_vars

\* C2 amended: whenever a clip is applied to a layer, restoring the layer
\* afterwards gives the vertex and triangle counts of the layer's pristine
\* mesh (the counts before the clip only if the layer was unclipped then), and
\* every step that deletes a layer's clip record leaves the layer with those
\* counts.
RoundTripToPristineCounts ==
    [][\A l \in LayerSet :
          /\ ClipAppliedTo(l) =>
                Counts(restoreOriginalGeometry(LayerStateAfter(l), isWebGPURenderer).geometry)
                    = Counts(Pristine(l))
          /\ (CarriesClip(l) /\ ~IsSome(clippingPlanes'[l])) =>
                Counts(geometry'[l]) = Counts(Pristine(l))]_vars

\* C2 witness: a layer that was clipped (its snapshot is stored) and then
\* restored (its clip record is gone), with the counts of its pristine mesh.
ClippedThenRestoredLayer ==
    \E l \in LayerSet :
        /\ IsSome(originalGeometries[l])
        /\ ~IsSome(clippingPlanes[l])
        /\ Counts(geometry[l]) = Counts(Pristine(l))

\* C3 as stated: with real-time clipping on, after every polygon change or
\* enrollment change every enrolled and visible layer shows the partition of
\* its pristine mesh by the current polygon's plane and the current direction,
\* and every layer that is not enrolled shows its pristine mesh.
RealtimeStateConsistent ==
    [][(realtimeClipping /\ realtimeClipping'
            /\ (PolygonChanged \/ \E l \in LayerSet : EnrollmentChanged(l))) =>
        \A l \in LayerSet :
            /\ (clipChecked'[l] /\ visible'[l]) =>
                    geometry'[l] = ClippedGeometry(Pristine(l), PlaneOf(clippingPolygon'),
                                                   clippingDirection')
            /\ ~clipChecked'[l] => geometry'[l] = Pristine(l)]_vars

RealtimeOffRestoresEveryLayer ==
    [][(realtimeClipping /\ ~realtimeClipping') =>
        \A l \in LayerSet :
            /\ geometry'[l] = (IF IsSome(originalGeometries[l])
                               THEN Get(originalGeometries[l]) ELSE geometry[l])
            /\ geometry'[l] = Pristine(l)
            /\ ~IsSome(clippingPlanes'[l])]_vars

\* C5 witness: real-time clipping is off, every layer has been clipped and is
\* back to its pristine mesh without a record, one of them hidden and one of
\* them no longer enrolled.
AllRestoredAfterRealtime ==
    /\ ~realtimeClipping
    /\ \A l \in LayerSet :
            /\ IsSome(originalGeometries[l])
            /\ ~IsSome(clippingPlanes[l])
            /\ geometry[l] = Pristine(l)
    /\ \E l \in LayerSet : ~visible[l]
    /\ \E l \in LayerSet : ~clipChecked[l]

\* C6 as stated: after a direction change every enrolled and visible layer
\* shows the partition of its pristine mesh by the current plane and the new
\* direction, and every other layer is restored and not clipped again.
DirectionChangeReclipsSubjectLayers ==
    [][(clippingDirection' # clippingDirection) =>
        \A l \in LayerSet :
            IF clipChecked[l] /\ visible[l]
            THEN geometry'[l] = ClippedGeometry(Pristine(l), PlaneOf(clippingPolygon),
                                                clippingDirection')
            ELSE geometry'[l] = Pristine(l) /\ ~IsSome(clippingPlanes'[l])]_vars

\* C7: an enrollment change of one layer leaves the mesh, the snapshot and the
\* clip records of the other layers as they were; with real-time clipping on
\* it restores the layer when switched off and clips it when switched on; with
\* real-time clipping off it changes no layer.
EnrollmentChangeTouchesOneLayer ==
    [][\A l \in LayerSet :
          EnrollmentChanged(l) =>
              /\ \A m \in LayerSet \ {l} : LayerUntouched(m)
              /\ ~realtimeClipping => LayerUntouched(l)
              /\ (realtimeClipping /\ ~clipChecked'[l]) =>
                    /\ geometry'[l] = Pristine(l)
                    /\ ~IsSome(clippingPlanes'[l])
              /\ (realtimeClipping /\ clipChecked'[l]) =>
                    /\ geometry'[l] = ClippedGeometry(Pristine(l), PlaneOf(clippingPolygon),
                                                      clippingDirection)
                    /\ IsSome(clippingPlanes'[l])]_vars

\* C7 witness: with real-time clipping on, one layer has been taken out of the
\* enrollment and restored while another stays enrolled and clipped.
OneLayerRestoredAlone ==
    /\ realtimeClipping
    /\ \E l, m \in LayerSet :
            /\ ~clipChecked[l]
            /\ IsSome(originalGeometries[l])
            /\ ~IsSome(clippingPlanes[l])
            /\ geometry[l] = Pristine(l)
            /\ clipChecked[m]
            /\ CarriesClip(m)
            /\ geometry[m] # Pristine(m)

\* The first three points of the polygon are collinear.
Collinear(polygon) ==
    /\ IsSome(polygon)
    /\ Len(Get(polygon)) >= 3
    /\ Cross(Sub(Get(polygon)[2], Get(polygon)[1]),
             Sub(Get(polygon)[3], Get(polygon)[1])) = <<0, 0, 0>>

\* C8 as stated: with a clip polygon whose first three points are collinear
\* the solver gives no plane, and a call of clipSphereWithPolygon or
\* updateMaterialClipping leaves the layer's mesh, snapshot and clip state as
\* they were.
DegeneratePolygonAborts ==
    [][Collinear(clippingPolygon) =>
        /\ ~IsSome(calculateClippingPlane(Get(clippingPolygon)))
        /\ \A l \in CalledLayers :
                (ClipSphereCall(l) \/ UpdateMaterialCall(l)) => LayerUntouched(l)]_vars

\* The polygon is absent or has fewer than three points.
TooFewPoints(polygon) == ~IsSome(polygon) \/ Len(Get(polygon)) < 3

\* C9: with a clip polygon that is absent or has fewer than three points the
\* solver gives no plane and a call of clipSphereWithPolygon or
\* updateMaterialClipping changes nothing of the layer; the finish gesture
\* with fewer than three captured points changes nothing at all.
FewerThanThreePointsNeverClip ==
    [][/\ TooFewPoints(clippingPolygon) =>
            /\ IsSome(clippingPolygon) =>
                    ~IsSome(calculateClippingPlane(Get(clippingPolygon)))
            /\ \A l \in CalledLayers :
                    (ClipSphereCall(l) \/ UpdateMaterialCall(l)) => LayerUntouched(l)
       /\ (Len(polygonPoints) < 3 /\ CanvasContextMenu) => UNCHANGED vars]_vars

\* C9 witness: a capture of two points in progress and a clip polygon of two
\* points, with every layer as created.
TwoPointsEverywhere ==
    /\ isDrawingPolygon
    /\ Len(polygonPoints) = 2
    /\ IsSome(clippingPolygon)
    /\ Len(Get(clippingPolygon)) = 2
    /\ geometry = createEarthLayers
    /\ \A l \in LayerSet :
            /\ ~IsSome(clippingPlanes[l])
            /\ ~IsSome(originalGeometries[l])
            /\ ~IsSome(materialPlanes[l])

\* The point set rotated about an axis and then moved along an axis.
RotatedThenTranslated(original, rotAxis, rotation, axis, position) ==
    [i \in 1..Len(original) |->
        ApplyTranslation(ApplyRotation(original[i], rotAxis, rotation), axis, position)]

\* The step is a change of one of the four transform controls.
TransformChanged ==
    <<polygonAxis, polygonPosition, polygonRotationAxis, polygonRotation>>' #
    <<polygonAxis, polygonPosition, polygonRotationAxis, polygonRotation>>

\* C10: after a change of the translation axis or amount or of the rotation
\* axis or angle, the working polygon is the original point set rotated by the
\* current angle about the current rotation axis and then moved by the current
\* amount along the current axis; either recompute run again with the same
\* parameters gives the same working points; the original point set is as it
\* was.
TransformsAreAbsolute ==
    [][TransformChanged =>
        /\ originalPolygonPoints' = originalPolygonPoints
        /\ Get(clippingPolygon') =
                RotatedThenTranslated(Get(originalPolygonPoints), polygonRotationAxis',
                                      polygonRotation', polygonAxis', polygonPosition')
        /\ PositionPoints(Get(originalPolygonPoints'), polygonRotationAxis',
                          polygonRotation', polygonAxis', polygonPosition')
                = Get(clippingPolygon')
        /\ TransformPoints(Get(originalPolygonPoints'), polygonRotationAxis',
                           polygonRotation', polygonAxis', polygonPosition')
                = Get(clippingPolygon')]_vars

\* C10 witness: the polygon rotated by 90 degrees and moved by 35 after the
\* position has been away from 0 and the axes have been changed, equal to its
\* original point set so transformed and different from it.
RotatedAndMovedPolygon ==
    /\ polygonRotation = 90
    /\ polygonPosition = 35
    /\ polygonRotationAxis = "y"
    /\ polygonAxis = "x"
    /\ Get(clippingPolygon) =
            RotatedThenTranslated(Get(originalPolygonPoints), "y", 90, "x", 35)
    /\ clippingPolygon # originalPolygonPoints

\* C11: a change of a transform control that leaves the rotation angle at 0 and
\* the translation amount at 0 sets the working polygon to the original point
\* set exactly; with angle 0 and amount 0 both recomputes return the original
\* points for every rotation axis and every translation axis.
ZeroTransformIsOriginal ==
    [][(TransformChanged /\ polygonRotation' = 0 /\ polygonPosition' = 0) =>
        /\ clippingPolygon' = originalPolygonPoints'
        /\ \A rotAxis \in Axes : \A axis \in Axes :
            /\ PositionPoints(Get(originalPolygonPoints'), rotAxis, 0, axis, 0)
                    = Get(originalPolygonPoints')
            /\ TransformPoints(Get(originalPolygonPoints'), rotAxis, 0, axis, 0)
                    = Get(originalPolygonPoints')]_vars

\* C11 witness: angle 0 and amount 0 with both axes changed from their initial
\* values, so that both recomputes have run, and the working polygon equal to
\* the original point set.
BackAtOriginalPolygon ==
    /\ polygonRotation = 0
    /\ polygonPosition = 0
    /\ polygonRotationAxis = "y"
    /\ polygonAxis = "x"
    /\ IsSome(clippingPolygon)
    /\ clippingPolygon = originalPolygonPoints

\* The step is a change of the polygon width or height.
SizeChanged ==
    <<polygonWidth, polygonHeight>>' # <<polygonWidth, polygonHeight>>

\* C12: after a change of the width or height the original point set is the
\* fresh rectangle of the new size and the working polygon is that rectangle
\* rotated by the current angle and moved by the current amount.
ResizeKeepsTransform ==
    [][SizeChanged =>
        /\ originalPolygonPoints' = Some(RectanglePoints(polygonWidth', polygonHeight'))
        /\ Get(clippingPolygon') =
                RotatedThenTranslated(Get(originalPolygonPoints'), polygonRotationAxis',
                                      polygonRotation', polygonAxis', polygonPosition')]_vars

\* The number of planes in the clip-plane list of the material of layer l.
MaterialPlaneCount(l) ==
    IF IsSome(materialPlanes[l]) THEN Len(Get(materialPlanes[l])) ELSE 0

AtMostOneClipRecord ==
    \A l \in LayerSet : PlanesLength(LayerState(l)) <= 1

\* The layer record keeps its mesh buffers and its snapshot slot.
SameBuffers(before, after) ==
    /\ after.geometry = before.geometry
    /\ after.original = before.original

\* C15: with a renderer that is not a WebGPU renderer every layer has the
\* vertex and index buffers it was created with and no snapshot is stored;
\* a clip application, a clip update and a restoration of any layer in its
\* current state leave its buffers and its empty snapshot slot as they are.
MaterialStrategyKeepsBuffers ==
    ~isWebGPURenderer =>
        /\ geometry = createEarthLayers
        /\ \A l \in LayerSet :
            /\ ~IsSome(originalGeometries[l])
            /\ SameBuffers(LayerState(l),
                    clipSphereWithPolygon(LayerState(l), clippingPolygon,
                                          clippingDirection, isWebGPURenderer))
            /\ SameBuffers(LayerState(l),
                    updateMaterialClipping(LayerState(l), clippingPolygon,
                                           clippingDirection))
            /\ SameBuffers(LayerState(l),
                    restoreOriginalGeometry(LayerState(l), isWebGPURenderer))

\* C15 witness: under the material strategy one layer carries a plane moved by
\* a clip update, another has been clipped and restored, and all buffers are
\* the created ones.
MaterialClippedWithPristineBuffers ==
    /\ ~isWebGPURenderer
    /\ polygonPosition = 35
    /\ MaterialPlaneCount("crust") >= 1
    /\ Get(materialPlanes["crust"])[1].constant # -5
    /\ materialPlanes["core"] = Some(<< >>)
    /\ geometry = createEarthLayers
    /\ \A l \in LayerSet : ~IsSome(originalGeometries[l])

\* The layer carries a clip made by geometry partition: a record and a snapshot.
GeometryClipped(l) ==
    IsSome(clippingPlanes[l]) /\ Len(Get(clippingPlanes[l])) > 0

\* What either strategy leaves on the layers.
OneStrategyInEffect ==
    IF isWebGPURenderer
    THEN \A l \in LayerSet :
            /\ ~IsSome(materialPlanes[l])
            /\ ~clipIntersection[l]
            /\ GeometryClipped(l) => IsSome(originalGeometries[l])
            /\ ~IsSome(originalGeometries[l]) => geometry[l] = createEarthLayers[l]
    ELSE \A l \in LayerSet :
            /\ ~GeometryClipped(l)
            /\ ~IsSome(originalGeometries[l])
            /\ geometry[l] = createEarthLayers[l]

\* C16: with a WebGPU renderer a clipped layer is clipped by geometry partition
\* (record and snapshot) and no layer's material ever has a clip-plane list;
\* with any other renderer no layer is partitioned, snapshotted or recorded as
\* geometry-clipped; and no step changes the kind of renderer.
StrategyFixedByBackend ==
    /\ []OneStrategyInEffect
    /\ [][isWebGPURenderer' = isWebGPURenderer]_vars

\* C16 witness: with the WebGPU renderer the crust has been clipped by
\* partition (record, snapshot, fewer vertices than the snapshot) and its
\* material has no clip-plane list.
PartitionedWithoutMaterialPlane ==
    /\ isWebGPURenderer
    /\ GeometryClipped("crust")
    /\ IsSome(originalGeometries["crust"])
    /\ Len(geometry["crust"].position) < Len(Get(originalGeometries["crust"]).position)
    /\ ~IsSome(materialPlanes["crust"])

\* The stored original of layer l is as it was before the step.
SnapshotKept(l) ==
    IsSome(originalGeometries[l]) => originalGeometries'[l] = originalGeometries[l]

\* The step stores the original of layer l: it is the mesh the layer had, and
\* the step is a geometry clip of the layer.
SnapshotTakenAtClip(l) ==
    (~IsSome(originalGeometries[l]) /\ IsSome(originalGeometries'[l])) =>
        /\ originalGeometries'[l] = Some(geometry[l])
        /\ ~GeometryClipped(l)
        /\ IsSome(clippingPlanes'[l]) /\ Len(Get(clippingPlanes'[l])) = 1
        /\ geometryObject'[l] = "newGeometry"

\* C17: the stored original of a layer appears in the step that clips the
\* layer's geometry for the first time and is the mesh the layer had then; no
\* step changes, replaces or removes a stored original; and the geometry of a
\* layer's mesh is never the stored original itself.
SnapshotImmutable ==
    /\ [](\A l \in LayerSet : geometryObject[l] # "original")
    /\ [][\A l \in LayerSet : SnapshotKept(l) /\ SnapshotTakenAtClip(l)]_vars

\* C17 witness: the crust was edited before its first clip, so that its stored
\* original differs from the created sphere; it has been restored and edited
\* again, so that its mesh is a clone that differs from the stored original.
EditedAroundSnapshot ==
    /\ IsSome(originalGeometries["crust"])
    /\ Get(originalGeometries["crust"]) # createEarthLayers["crust"]
    /\ geometryObject["crust"] = "clone"
    /\ geometry["crust"] # Get(originalGeometries["crust"])
    /\ Len(geometry["crust"].position) = Len(Get(originalGeometries["crust"]).position)

\* The step stores new segment counts.
SegmentsChanged == currentSegments' # currentSegments

\* C18: after a step that stores new segment counts (w, h), every layer's mesh
\* has (w + 1) * (h + 1) vertices and 2 * w * h triangles, and the displayed
\* vertex and triangle counts are those of the meshes.
ResolutionChangeRegeneratesLayers ==
    [][SegmentsChanged =>
        \A l \in LayerSet :
            /\ VertexCount(geometry'[l]) =
                    (currentSegments'.width + 1) * (currentSegments'.height + 1)
            /\ TriangleCount(geometry'[l]) =
                    2 * currentSegments'.width * currentSegments'.height
            /\ vertexCount' = Some(VertexCount(geometry'[l]))
            /\ triangleCount' = Some(TriangleCount(geometry'[l]))]_vars

\* The segment counts are whole numbers from MinSegments to MaxSegments.
InRange(segments) ==
    /\ segments.width \in MinSegments..MaxSegments
    /\ segments.height \in MinSegments..MaxSegments

\* C19: the current segment counts are integers in [8, 1024], and so are the
\* counts readInitialSegments makes of any pair of field values.
SegmentsWithinRange ==
    /\ InRange(currentSegments)
    /\ \A widthValue \in FieldValues : \A heightValue \in FieldValues :
            InRange(readInitialSegments(widthValue, heightValue))

\* C19 witness: the counts are at both ends of the range after a preset and
\* custom input, while a field holds a value outside the range.
SegmentsAtBothEnds ==
    /\ currentSegments = [width |-> MaxSegments, height |-> MinSegments]
    /\ customHeight = Some(1025)
    /\ segmentCount = Some(<<MaxSegments, MinSegments>>)

\* The field holds no number, or one below 8 or above 1024.
OutOfRange(parsed) ==
    \/ ~IsSome(parsed)
    \/ Get(parsed) < MinSegments
    \/ Get(parsed) > MaxSegments

\* The step is an 'input' event on one of the two fields.
FieldChanged ==
    <<customWidth, customHeight>>' # <<customWidth, customHeight>>

\* C20: an input event after which either field is missing, below 8 or above
\* 1024 leaves the segment counts, every layer's mesh and visibility, the
\* layers' membership in the scene and the displayed counts as they were.
OutOfRangeInputIgnored ==
    [][(FieldChanged /\ (OutOfRange(customWidth') \/ OutOfRange(customHeight'))) =>
        /\ currentSegments' = currentSegments
        /\ layerVars' = layerVars
        /\ inScene' = inScene
        /\ <<segmentCount, vertexCount, triangleCount>>' =
                <<segmentCount, vertexCount, triangleCount>>]_vars

\* C20 witness: the height field holds a valid number other than the current
\* height while the width field is above the range, and the counts and the
\* display are those of an earlier valid input.
InputWaitingForOtherField ==
    /\ customWidth = Some(1025)
    /\ customHeight = Some(MaxSegments)
    /\ currentSegments = [width |-> 16, height |-> MinSegments]
    /\ vertexCount = Some(153)
    /\ triangleCount = Some(256)

-----------------------------------------------------------------------------
(* The brush (SpecBrush).                                                  *)

RadiusSquared(vertex) == Dot(vertex, vertex)

\* The crust vertices a step moves.
MovedVertices ==
    {k \in 1..Len(geometry["crust"].position) :
        geometry'["crust"].position[k] # geometry["crust"].position[k]}

WithinBrushOfAHit(vertex) ==
    \E hit \in BrushHits :
        /\ IsSome(hit)
        /\ brushSize > 0
        /\ RadiusSquared(Sub(vertex, Get(hit))) < brushSize * brushSize

\* C21: a brush stroke in extrude mode leaves every vertex it moves strictly
\* farther from the centre and none nearer, a stroke in compress mode leaves
\* no vertex farther from the centre, and every vertex a stroke moves lies
\* within the brush size of the hit point.
BrushMovesRadially ==
    [][\A k \in MovedVertices :
        LET before == geometry["crust"].position[k]
            after == geometry'["crust"].position[k]
        IN  /\ mode = "extrude" => RadiusSquared(after) > RadiusSquared(before)
            /\ mode = "compress" => RadiusSquared(after) <= RadiusSquared(before)
            /\ WithinBrushOfAHit(before)]_vars

\* editTerrain in extrude mode and then in compress mode with the same
\* intersection point, brush size and intensity.
ExtrudeThenCompress(positions, localPoint) ==
    BrushedPositions(BrushedPositions(positions, localPoint, "extrude"),
                     localPoint, "compress")

\* C22: an extrude stroke followed by a compress stroke with the same hit
\* point, brush size and intensity returns every vertex to where it was before
\* the extrude stroke (to within 0.001, which is less than the model's
\* resolution of a tenth).
ExtrudeThenCompressReturns ==
    \A hit \in BrushHits :
        IsSome(hit) =>
            ExtrudeThenCompress(geometry["crust"].position, Get(hit))
                = geometry["crust"].position

\* The cases in which editTerrain has nothing to write: no terrain, no
\* intersection, a brush size of zero or less, or no vertex nearer to the
\* intersection point than the brush size.
NothingInRange(hit) ==
    \/ ~IsSome(terrain)
    \/ ~IsSome(hit)
    \/ brushSize <= 0
    \/ \A k \in 1..Len(geometry["crust"].position) :
            RadiusSquared(Sub(geometry["crust"].position[k], Get(hit)))
                >= brushSize * brushSize

\* C23: a brush application with no terrain, no ray hit, a brush size of zero
\* or less, or no vertex within the brush size of the hit changes no vertex
\* position, does not set position.needsUpdate and does not compute normals.
NoOpBrushLeavesTerrain ==
    [][\A hit \in BrushHits :
        (NothingInRange(hit) /\ (CanvasMouseDownEditing(hit) \/ CanvasMouseMove(hit)))
            => UNCHANGED <<geometry, needsUpdate, normalsComputed>>]_vars

\* A drag that began with a brush of size zero on a terrain no handler has
\* marked or moved.
DragWithEmptyBrush ==
    /\ isEditing
    /\ isDragging
    /\ brushSize <= 0
    /\ ~needsUpdate
    /\ ~normalsComputed
    /\ geometry = createEarthLayersTenths

-----------------------------------------------------------------------------
(* The writing handlers (SpecWrites).                                      *)

PositionsChanged ==
    \E l \in LayerSet : geometry'[l].position # geometry[l].position

\* C24: a step that changes a vertex position of a layer mesh leaves
\* position.needsUpdate set and the normals computed, and a brush stroke that
\* sets them has moved a vertex.
WritesAreMarked ==
    [][/\ PositionsChanged => (needsUpdate' /\ normalsComputed')
       /\ \A p \in BrushPoints :
            (CanvasMouseDownEditing(Some(p)) /\ ~needsUpdate /\ needsUpdate')
                => PositionsChanged]_vars

\* The terrain moved and marked within the frame.
MovedAndMarked ==
    /\ needsUpdate
    /\ normalsComputed
    /\ geometry["crust"].position # createEarthLayers["crust"].position

-----------------------------------------------------------------------------
(* The capture preview in the scene (SpecWrites).                          *)

NoPreviews == [vertices |-> 0, lines |-> 0, area |-> 0]

\* The preview of a capture of k points: k markers, a line from two points
\* on, a fill from three points on.
PreviewOf(k) ==
    [vertices |-> k,
     lines |-> IF k >= 2 THEN 1 ELSE 0,
     area |-> IF k >= 3 THEN 1 ELSE 0]

\* C25: a finish gesture in polygon draw mode with at least three captured
\* points applies the polygon edit and leaves the captured point list empty
\* and no marker, line or fill of the capture in the scene; with fewer than
\* three points it leaves the list and the meshes as they were.
FinishGestureClearsCapture ==
    [][(isDrawingPolygon /\ CanvasContextMenu) =>
        IF Len(polygonPoints) >= 3
        THEN /\ geometry'["crust"].position
                    = EditedPositions(geometry["crust"].position, polygonPoints)
             /\ polygonPoints' = << >>
             /\ previewsInScene' = NoPreviews
        ELSE UNCHANGED <<polygonPoints, geometry>>]_vars

\* C26: once the k-th point of a capture has been added, the scene holds
\* exactly k markers, one line if k is at least two and one fill if k is at
\* least three, and nothing of the previews drawn for fewer points.
PreviewRegenerated ==
    [][Len(polygonPoints') = Len(polygonPoints) + 1
        => previewsInScene' = PreviewOf(Len(polygonPoints'))]_vars

-----------------------------------------------------------------------------
(* Asset loading (SpecLoads).                                              *)

\* C27: every load trigger, heightmap or point cloud, puts a loading
\* indicator into the document (the first thing the claim says of a load,
\* before it suspends, resumes and completes).
LoadShowsIndicator ==
    [][(LoadTerrainClick \/ LoadPointCloudClick) => loading' = loading + 1]_vars

-----------------------------------------------------------------------------
(* The edit session's fields (SpecSession).                                *)

\* C28: each field of the edit session (brush size, intensity, brush mode,
\* edit mode, polygon draw mode, clipping direction, real-time flag, the
\* layers checked for clipping) changes only in a step of the control that
\* belongs to it; so enabling real-time clipping leaves the checked layers as
\* they are and the polygon mode button leaves the edit mode as it is.
SessionFieldsKeepTheirControls ==
    [][/\ brushSize' # brushSize => \E value \in {brushSize'} : BrushSizeInput(value)
       /\ intensity' # intensity => \E value \in {intensity'} : IntensityInput(value)
       /\ mode' # mode => setMode(mode')
       /\ isEditing' # isEditing => EditModeClick
       /\ isDrawingPolygon' # isDrawingPolygon => PolygonModeClick
       /\ clippingDirection' # clippingDirection
            => ClippingDirectionChange(clippingDirection')
       /\ realtimeClipping' # realtimeClipping => RealtimeClippingToggle
       /\ clipChecked' # clipChecked => \E l \in LayerSet : ClipCheckboxChange(l)]_vars

-----------------------------------------------------------------------------
(* Requests that name no layer, and restores without a snapshot.           *)

\* C29: a clip or restore request with a name that stands for no layer mesh
\* changes no layer's mesh, snapshot or recorded planes, and a restore of a
\* layer without a stored original leaves the layer's geometry as it is.
MissingTargetChangesNothing ==
    [][/\ \A targetLayer \in RequestedLayers \ LayerSet :
            (ClipSphereCall(targetLayer) \/ RestoreCall(targetLayer))
                => UNCHANGED layerVars
       /\ \A l \in CalledLayers :
            (RestoreCall(l) /\ ~IsSome(originalGeometries[l]))
                => geometry'[l] = geometry[l]]_vars

\* A terrain the brush has moved and no clip has stored: a restore now has
\* no snapshot to go back to.
EditedWithoutSnapshot ==
    /\ ~IsSome(originalGeometries["crust"])
    /\ geometry["crust"] # createEarthLayers["crust"]

\* The triangles a geometry presents for rendering, as triples of vertex
\* numbers: those of its index buffer, or, without one, the consecutive
\* triples of its vertices.
PresentedTriangles(g) ==
    IF g.hasIndex
    THEN {g.index[k] : k \in 1..Len(g.index)}
    ELSE {<<3 * k, 3 * k + 1, 3 * k + 2>> : k \in 0..((Len(g.position) \div 3) - 1)}

\* The layers that show a partitioned mesh, and the plane and direction of the
\* partition: the last record of this.clippingPlanes[mesh.uuid].
Partitioned(l) ==
    /\ geometryObject[l] = "newGeometry"
    /\ IsSome(clippingPlanes[l])
    /\ Len(Get(clippingPlanes[l])) > 0

LastPlane(l) == Get(clippingPlanes[l])[Len(Get(clippingPlanes[l]))]

\* The visible vertices of the pristine mesh of a layer (0-based numbers) and
\* the new number of one of them: the number of visible vertices before it.
VisibleOf(l) ==
    {i \in 0..(VertexCount(Pristine(l)) - 1) :
        shouldShow(Pristine(l).position[i + 1], LastPlane(l), LastPlane(l).direction)}

Renumbered(visibleSet, i) == Cardinality({j \in visibleSet : j < i})

\* The pristine triangles whose three vertices are visible, renumbered.
FullyVisibleTriangles(l, visibleSet) ==
    {<<Renumbered(visibleSet, t[1]), Renumbered(visibleSet, t[2]),
       Renumbered(visibleSet, t[3])>> :
        t \in {Pristine(l).index[k] : k \in 1..Len(Pristine(l).index)}
                 \cap (visibleSet \X visibleSet \X visibleSet)}

VerticesAreTheVisibleOnes(l, visibleSet) ==
    /\ VertexCount(geometry[l]) = Cardinality(visibleSet)
    /\ \A i \in visibleSet :
          geometry[l].position[Renumbered(visibleSet, i) + 1] = Pristine(l).position[i + 1]

IndicesInRange(l) ==
    geometry[l].hasIndex =>
        \A k \in 1..Len(geometry[l].index) : \A n \in 1..3 :
            geometry[l].index[k][n] \in 0..(VertexCount(geometry[l]) - 1)

TrianglesAreTheVisibleOnes(l, visibleSet) ==
    PresentedTriangles(geometry[l]) = FullyVisibleTriangles(l, visibleSet)

\* C30: the mesh of a partitioned layer holds exactly the visible pristine
\* vertices in their order, every index of its index buffer is the number of
\* one of its vertices, and the triangles it presents for rendering are
\* exactly the pristine triangles whose three vertices are visible, renumbered.
PartitionedMeshIsExact ==
    \A l \in LayerSet :
        Partitioned(l) =>
            /\ VerticesAreTheVisibleOnes(l, VisibleOf(l))
            /\ IndicesInRange(l)
            /\ TrianglesAreTheVisibleOnes(l, VisibleOf(l))

PartitionedVerticesExact ==
    \A l \in LayerSet :
        Partitioned(l) => VerticesAreTheVisibleOnes(l, VisibleOf(l)) /\ IndicesInRange(l)

\* A partitioned layer keeps vertices but no triangle.
VerticesWithoutTriangle ==
    \E l \in LayerSet :
        /\ Partitioned(l)
        /\ VertexCount(geometry[l]) >= 3
        /\ ~geometry[l].hasIndex

\* The signed distance of the pristine vertices of a layer from the plane of
\* its partition, and the vertices the test shows in one direction.
SignedDistance(l, i) ==
    Dot(LastPlane(l).normal, Pristine(l).position[i + 1]) + LastPlane(l).d

PristineVertices(l) == 0..(VertexCount(Pristine(l)) - 1)

ShownIn(l, direction) ==
    {i \in PristineVertices(l) :
        shouldShow(Pristine(l).position[i + 1], LastPlane(l), direction)}

\* C31: for the plane of a partitioned layer the test shows in outside mode
\* exactly the vertices of positive signed distance and in inside mode exactly
\* those of negative signed distance: the two sets are disjoint, together they
\* are the vertices not on the plane, and the mesh of the layer holds as many
\* vertices as the set of its direction.
ClassificationIsStrictHalfSpace ==
    \A l \in LayerSet :
        Partitioned(l) =>
            /\ ShownIn(l, "outside") = {i \in PristineVertices(l) : SignedDistance(l, i) > 0}
            /\ ShownIn(l, "inside") = {i \in PristineVertices(l) : SignedDistance(l, i) < 0}
            /\ ShownIn(l, "outside") \cap ShownIn(l, "inside") = {}
            /\ ShownIn(l, "outside") \cup ShownIn(l, "inside")
                    = {i \in PristineVertices(l) : SignedDistance(l, i) # 0}
            /\ VertexCount(geometry[l])
                    = Cardinality(ShownIn(l, LastPlane(l).direction))

\* C31 witness: the mantle partitioned by the plane z = 40, which its vertex
\* (0, 0, 40) lies on: inside mode keeps every vertex but that one.
VertexOnThePlane ==
    /\ Partitioned("mantle")
    /\ LastPlane("mantle") = [normal |-> <<0, 0, 1>>, d |-> -40, direction |-> "inside"]
    /\ \E i \in PristineVertices("mantle") :
            /\ Pristine("mantle").position[i + 1] = <<0, 0, 40>>
            /\ SignedDistance("mantle", i) = 0
    /\ VertexCount(geometry["mantle"]) = VertexCount(Pristine("mantle")) - 1

\* A layer without partitioned geometry, clip record or material clip plane.
Unclipped(l) ==
    /\ geometryObject[l] # "newGeometry"
    /\ IsSome(clippingPlanes[l]) => Len(Get(clippingPlanes[l])) = 0
    /\ IsSome(materialPlanes[l]) => Len(Get(materialPlanes[l])) = 0

\* C32: while real-time clipping is disabled every layer is unclipped.
ClippingOnlyInRealtimeMode ==
    ~realtimeClipping => \A l \in LayerSet : Unclipped(l)

\* C34: the three layer meshes are in the scene, and so is the mesh the
\* terrain reference stands for.
LayersStayInScene ==
    /\ \A l \in LayerSet : inScene[l]
    /\ IsSome(terrain) => inScene[Get(terrain)]

\* The vertices a mesh holds, by their numbers in the created sphere (1-based):
\* all of them, or, for a partitioned mesh, the ones its partition kept.
HeldVertices(object, original, planes, count) ==
    IF object = "newGeometry"
    THEN KeptVertices(VertexVisibility(Get(original).position,
                                       Get(planes)[Len(Get(planes))],
                                       Get(planes)[Len(Get(planes))].direction))
    ELSE [i \in 1..count |-> i]

\* Every vertex the crust mesh holds before and after the step is where it was.
CrustVerticesStay ==
    LET before == HeldVertices(geometryObject["crust"], originalGeometries["crust"],
                               clippingPlanes["crust"], VertexCount(geometry["crust"]))
        after == HeldVertices(geometryObject'["crust"], originalGeometries'["crust"],
                              clippingPlanes'["crust"], VertexCount(geometry'["crust"]))
    IN  \A k \in 1..Len(before) : \A j \in 1..Len(after) :
            before[k] = after[j] =>
                geometry'["crust"].position[j] = geometry["crust"].position[k]

\* C33: a clip or a restore of the crust leaves every vertex that the crust
\* still shows where the brush edits before it had put it.
BrushEditsSurviveClipping ==
    [][(ClipSphereCall("crust") \/ RestoreCall("crust")) => CrustVerticesStay]_vars

\* C35: edit mode and polygon draw mode are never on together, and a drag is
\* in progress only in edit mode.
ModesMutuallyExclusive ==
    /\ ~(isEditing /\ isDrawingPolygon)
    /\ isDragging => isEditing

DragOnlyWhileEditing == isDragging => isEditing

\* A step of the polygon capture: the draw mode is entered or left, a point is
\* clicked, or the capture is finished.
CaptureStep ==
    \/ PolygonModeClick
    \/ \E hit \in {None} \cup {Some(p) : p \in HitPoints} : CanvasMouseDown(hit)
    \/ CanvasContextMenu

\* C36: a step of the polygon capture leaves the point sets of the clip
\* polygon, its corner markers and its fill mesh as they are.
CaptureKeepsClipPolygon ==
    [][CaptureStep =>
        UNCHANGED <<clippingPolygon, originalPolygonPoints, sphereCylinders, spherePolygon>>]_vars

\* C37: a step that changes a transform control is a step of
\* updatePolygonPosition and a step of updatePolygonTransform with the
\* parameters it leaves: whichever of the two the handler called, the other
\* would have left the same working polygon, visuals and layers.
RecomputesAgree ==
    [][TransformChanged =>
        /\ updatePolygonPosition(polygonRotationAxis', polygonRotation',
                                 polygonAxis', polygonPosition')
        /\ updatePolygonTransform(polygonRotationAxis', polygonRotation',
                                  polygonAxis', polygonPosition')]_vars

\* C37 witness: with real-time clipping on, the polygon has been rotated and
\* moved and the enrolled layers are partitioned by its plane.
RecomputedWhileClipping ==
    /\ realtimeClipping
    /\ polygonRotation = 90
    /\ polygonPosition = 35
    /\ \A l \in LayerSet : Partitioned(l)
    /\ LastPlane("crust").normal # <<0, 0, 1>>

\* A step of one of the three terrain edits: the brush, smoothing, or the
\* finish gesture of a capture.
TerrainEditStep ==
    \/ \E hit \in {Some(p) : p \in BrushPoints} : CanvasMouseDownEditing(hit)
    \/ SmoothGlobeClick
    \/ CanvasContextMenu

\* C38: a terrain edit leaves the vertex and index buffers of the mantle and of
\* the core, and every stored original, as they are.
EditsTouchCrustOnly ==
    [][TerrainEditStep =>
        /\ geometry'["mantle"] = geometry["mantle"]
        /\ geometry'["core"] = geometry["core"]
        /\ originalGeometries' = originalGeometries]_vars

\* C38 witness: the partitioned crust has been edited, so that it differs from
\* the partition of its stored original, and mantle and core are as created.
EditedBesideSnapshot ==
    /\ Partitioned("crust")
    /\ IsSome(originalGeometries["crust"])
    /\ geometry["crust"] # ClippedGeometry(Get(originalGeometries["crust"]),
                                           LastPlane("crust"), LastPlane("crust").direction)
    /\ geometry["mantle"] = Pristine("mantle")
    /\ geometry["core"] = Pristine("core")

\* The three layer meshes exist and are in the scene.
LayersCreated == \A l \in LayerSet : geometry[l] # None /\ inScene[l]

\* Something of init()'s last three calls has happened.
SomethingRegistered == startup.controls \/ startup.listeners \/ startup.renderLoop

\* C39: control handlers and canvas listeners are registered and the render
\* loop is started only once the device, the renderer, the three layers and
\* the clip polygon exist; after a failed initialisation nothing is registered
\* or started; and every step of a handler is taken with the layers created.
InitialisationOrdered ==
    /\ [](SomethingRegistered =>
            /\ startup.device
            /\ isWebGPURenderer
            /\ LayersCreated
            /\ IsSome(clippingPolygon))
    /\ [](startup.step = "failed" => ~SomethingRegistered)
    /\ [][startup' = startup => LayersCreated]_vars

\* C39 witness: initialisation has ended and the brush, through the canvas
\* listener, has moved the crust away from the created sphere.
HandlerRanAfterInit ==
    /\ startup = Started
    /\ isEditing
    /\ geometry["crust"] # None
    /\ geometry["crust"] # createEarthLayers["crust"]

InitHasFailed == startup.step = "failed"

====
